---- MODULE Spec2Model ----
(***************************************************************************)
(* State-machine model of the provisioning script (deploy_script.py) and   *)
(* the teardown script (teardown.py) of the inventory deployment.          *)
(*                                                                         *)
(* db   : the shelve file aws_resources.db (key -> value)                  *)
(* aws  : the remote account (buckets, table, functions, gateway, ...)     *)
(* loc  : the local variables of the script that is running                *)
(* files: the local assets (web/index.html, the folder data)               *)
(* pc   : the pipeline step the running script is about to execute         *)
(* log  : the provider calls issued by the current (or last) run           *)
(* status: the current (or last) run, how it stands, its latest step and   *)
(*        the exception that ended it                                      *)
(* hist : history of the record: the remote state when it was created,     *)
(*        the names its runs asked to create, whether one of them aborted, *)
(*        the table as the current apply run found it, and for a destroy   *)
(*        run whether it follows an aborted apply run, found nothing left  *)
(*        and has met no failure                                           *)
(* runs, faults: how many runs were started; how many calls failed or      *)
(*        resources were deleted by hand                                   *)
(* input, output: the arguments and the result of a function that is       *)
(*        applied on its own (empty_bucket, the notification handler),     *)
(*        with pc "call" before and "return" after it; both stay None      *)
(*        while the scripts run                                            *)
(*                                                                         *)
(* All identifiers are tuples of strings, so that every value of the       *)
(* model can be compared with every other.                                 *)
(***************************************************************************)
EXTENDS Naturals, Integers, Sequences, FiniteSets, TLC

VARIABLES db, aws, files, loc, pc, log, status, hist, runs, faults, input, output

vars == <<db, aws, files, loc, pc, log, status, hist, runs, faults, input, output>>

(***************************** bounds **************************************)
MaxRuns == 3
\* what the environment does to the runs: failed calls and deletions by hand
MaxFaults == 1

(***************************** constants ***********************************)
None == <<"None">>

LOADER_FUNC_NAME == <<"LoadInventoryFunction">>
API_FUNC_NAME == <<"GetInventoryApiFunction">>
NOTIFY_FUNC_NAME == <<"NotifyLowStockFunction">>
TABLE_NAME == <<"Inventory">>
ROLE_NAME == <<"LabRole">>
EMAIL_NOTIFY == <<"ale_dario_04@hotmail.es">>
API_NAME == <<"InventoryAPI">>
AWS_DEFAULT_REGION == <<"us-east-1">>

FuncNames == {LOADER_FUNC_NAME, API_FUNC_NAME, NOTIFY_FUNC_NAME}

\* The values unique_suffix() can return: a date and a random token.
Suffixes == {<<"20240101", "abcd1234">>, <<"20240102", "0f0f0f0f">>}

\* The identifiers the gateway provider hands out, in the order it hands them out.
ApiIds == <<"api1", "api2", "api3", "api4", "api5">>

\* The .csv files of the local folder 'data', when it exists.
DataFiles == << <<"stock.csv">> >>

\* The UUIDs the function provider gives to event-source mappings, in order.
UuidLabels == <<"u1", "u2", "u3", "u4", "u5", "u6">>

\* The labels of the successive incarnations of the table's stream.
StreamLabels == <<"t1", "t2", "t3", "t4", "t5", "t6">>

(***************************** naming **************************************)
\* Mutation: the uploads bucket gets the prefix of the web bucket.
uploads_bucket_name_web_prefix(suffix) == <<"inventory-web">> \o suffix

uploads_bucket_name(suffix) == <<"inventory-uploads">> \o suffix
web_bucket_name(suffix) == <<"inventory-web">> \o suffix
sns_topic_name(suffix) == <<"NoStock">> \o suffix

BucketNames == {uploads_bucket_name(s) : s \in Suffixes} \cup {web_bucket_name(s) : s \in Suffixes}

table_arn_of(name) == <<"arn:aws:dynamodb", "table">> \o name
stream_arn_of(name, gen) == <<"arn:aws:dynamodb", "table">> \o name \o <<"stream", StreamLabels[gen]>>
topic_arn_of(name) == <<"arn:aws:sns">> \o name
function_arn_of(name) == <<"arn:aws:lambda", "function">> \o name
role_arn_of(name) == <<"arn:aws:iam", "role">> \o name
endpoint_of(api_id) == <<"https://", api_id, "execute-api", "amazonaws.com">>
website_url_of(bucket) == <<"http://">> \o bucket \o <<"s3-website-us-east-1.amazonaws.com">>

(***************************** the shelve file *****************************)
EmptyDb == [k \in {} |-> None]
DbSet(d, k, v) == [x \in (DOMAIN d) \cup {k} |-> IF x = k THEN v ELSE d[x]]
DbGet(d, k) == IF k \in DOMAIN d THEN d[k] ELSE None

(***************************** results of helpers **************************)
\* What a helper leaves behind: the remote state, the calls it issued, the
\* exception it raised ("none" when it returned) and its return value.
Call(op, arg) == [op |-> op, arg |-> arg]
One(S) == CHOOSE x \in S : TRUE
Ret(a, l, r) == [aws |-> a, log |-> l, exc |-> "none", ret |-> r]
Raise(a, l, e) == [aws |-> a, log |-> l, exc |-> e, ret |-> None]

(***************************** deploy_script.py helpers ********************)
\* Each helper takes the remote state a and the set F of the provider calls
\* that answer with an error other than the one the remote state implies
\* (access denied, throttling, a waiter that gives up, a missing local file).

\* Mutation: an existing bucket is deleted and created again.
ensure_bucket_recreates(a, name, F) ==
    LET head == <<Call("head_bucket", name)>>
        exists == name \in a.buckets /\ "head_bucket" \notin F
        l == IF exists THEN head \o <<Call("delete_bucket", name), Call("create_bucket", name)>>
             ELSE head \o <<Call("create_bucket", name)>>
    IN  IF "create_bucket" \in F
        THEN Raise(IF exists THEN [a EXCEPT !.buckets = @ \ {name}] ELSE a, l, "ClientError")
        ELSE Ret([a EXCEPT !.buckets = @ \cup {name}], l, None)

\* ensure_bucket: bucket_exists answers False on any ClientError of
\* head_bucket; create_bucket in us-east-1 answers OK for a bucket the caller
\* already owns. A name that another account holds ("BucketAlreadyExists" in
\* F) makes head_bucket answer 403 and create_bucket answer with the conflict
\* BucketAlreadyExists, a ClientError that nothing catches.
ensure_bucket(a, name, F) ==
    LET head == <<Call("head_bucket", name)>>
        taken == "BucketAlreadyExists" \in F /\ name \notin a.buckets
        exists == name \in a.buckets /\ "head_bucket" \notin F
    IN  IF exists THEN Ret(a, head, None)
        ELSE LET l == head \o <<Call("create_bucket", name)>>
             IN  IF taken THEN Raise(a, l, "BucketAlreadyExists")
                 ELSE IF "create_bucket" \in F THEN Raise(a, l, "ClientError")
                 ELSE Ret([a EXCEPT !.buckets = @ \cup {name}], l, None)

\* Mutation: the ARN is returned on the creation path only.
ensure_inventory_table_no_arn_on_conflict(a, name, F) ==
    LET create == <<Call("create_table", name)>>
        wait == <<Call("wait_table_exists", name)>>
        describe == <<Call("describe_table", name)>>
        created == [a EXCEPT !.table = [exists |-> TRUE, stream |-> TRUE, gen |-> @.gen + 1]]
    IN  IF "create_table" \in F THEN Raise(a, create, "ClientError")
        ELSE IF a.table.exists THEN Ret(a, create, None)
        ELSE IF "table_exists" \in F THEN Raise(created, create \o wait, "WaiterError")
        ELSE IF "describe_table" \in F
             THEN Raise(created, create \o wait \o describe, "ClientError")
        ELSE Ret(created, create \o wait \o describe, table_arn_of(name))

\* Mutation: on an existing table the stream is switched on.
ensure_inventory_table_enables_stream(a, name, F) ==
    LET create == <<Call("create_table", name)>>
        wait == <<Call("wait_table_exists", name)>>
        update == <<Call("update_table", name)>>
        describe == <<Call("describe_table", name)>>
        created == [a EXCEPT !.table = [exists |-> TRUE, stream |-> TRUE, gen |-> @.gen + 1]]
    IN  IF "create_table" \in F THEN Raise(a, create, "ClientError")
        ELSE IF a.table.exists
        THEN IF "describe_table" \in F
             THEN Raise([a EXCEPT !.table.stream = TRUE], create \o update \o describe,
                        "ClientError")
             ELSE Ret([a EXCEPT !.table.stream = TRUE], create \o update \o describe,
                      table_arn_of(name))
        ELSE IF "table_exists" \in F THEN Raise(created, create \o wait, "WaiterError")
        ELSE IF "describe_table" \in F
             THEN Raise(created, create \o wait \o describe, "ClientError")
        ELSE Ret(created, create \o wait \o describe, table_arn_of(name))

ensure_inventory_table(a, name, F) ==
    LET create == <<Call("create_table", name)>>
        wait == <<Call("wait_table_exists", name)>>
        describe == <<Call("describe_table", name)>>
        created == [a EXCEPT !.table = [exists |-> TRUE, stream |-> TRUE, gen |-> @.gen + 1]]
    IN  IF "create_table" \in F THEN Raise(a, create, "ClientError")
        ELSE IF a.table.exists
        THEN \* ResourceInUseException, caught
             IF "describe_table" \in F THEN Raise(a, create \o describe, "ClientError")
             ELSE Ret(a, create \o describe, table_arn_of(name))
        ELSE IF "table_exists" \in F THEN Raise(created, create \o wait, "WaiterError")
        ELSE IF "describe_table" \in F
             THEN Raise(created, create \o wait \o describe, "ClientError")
        ELSE Ret(created, create \o wait \o describe, table_arn_of(name))

labrole_arn(a, F) ==
    LET l == <<Call("get_caller_identity", ROLE_NAME)>>
    IN  IF "get_caller_identity" \in F THEN Raise(a, l, "ClientError")
        ELSE Ret(a, l, role_arn_of(ROLE_NAME))

\* build_lambda_zip_bytes raises FileNotFoundError when the source is missing.
build_lambda_zip_bytes(a, F) ==
    IF "zip" \in F THEN Raise(a, <<>>, "FileNotFoundError") ELSE Ret(a, <<>>, <<"zip">>)

\* Mutation: the configuration is updated right after the code, unwaited.
ensure_lambda_generic_no_wait(a, function_name, F) ==
    LET sts == <<Call("get_caller_identity", function_name)>>
        create == sts \o <<Call("create_function", function_name)>>
        code == create \o <<Call("update_function_code", function_name)>>
        conf == code \o <<Call("update_function_configuration", function_name)>>
    IN  IF "get_caller_identity" \in F THEN Raise(a, sts, "ClientError")
        ELSE IF "create_function" \in F THEN Raise(a, create, "ClientError")
        ELSE IF function_name \notin a.funcs
             THEN Ret([a EXCEPT !.funcs = @ \cup {function_name}], create,
                      function_arn_of(function_name))
        ELSE IF "update_function_code" \in F THEN Raise(a, code, "ClientError")
        ELSE IF "update_function_configuration" \in F THEN Raise(a, conf, "ClientError")
        ELSE Ret(a, conf, function_arn_of(function_name))

ensure_lambda_generic(a, function_name, F) ==
    LET sts == <<Call("get_caller_identity", function_name)>>
        create == sts \o <<Call("create_function", function_name)>>
        code == create \o <<Call("update_function_code", function_name)>>
        wait == code \o <<Call("wait_function_updated", function_name)>>
        conf == wait \o <<Call("update_function_configuration", function_name)>>
    IN  IF "get_caller_identity" \in F THEN Raise(a, sts, "ClientError")
        ELSE IF "create_function" \in F THEN Raise(a, create, "ClientError")
        ELSE IF function_name \notin a.funcs
             THEN Ret([a EXCEPT !.funcs = @ \cup {function_name}], create,
                      function_arn_of(function_name))
        ELSE \* ResourceConflictException, caught: the update path
             IF "update_function_code" \in F THEN Raise(a, code, "ClientError")
             ELSE IF "function_updated" \in F THEN Raise(a, wait, "WaiterError")
             ELSE IF "update_function_configuration" \in F THEN Raise(a, conf, "ClientError")
             ELSE Ret(a, conf, function_arn_of(function_name))

\* The function an ARN built by ensure_lambda_generic names.
function_of_arn(arn) == SubSeq(arn, 3, Len(arn))

\* lambda_client.add_permission after the result r: a conflict on the
\* statement id is swallowed, any other error propagates.
add_permission(r, function_name, statement_id, F) ==
    LET l == r.log \o <<Call("add_permission", function_name \o statement_id)>>
    IN  IF r.exc # "none" THEN r
        ELSE IF "add_permission" \in F \/ function_name \notin r.aws.funcs
             THEN Raise(r.aws, l, "ClientError")
        ELSE IF <<function_name, statement_id>> \in r.aws.perms THEN Ret(r.aws, l, r.ret)
        ELSE Ret([r.aws EXCEPT !.perms = @ \cup {<<function_name, statement_id>>}], l, r.ret)

\* The APIs of get_apis()["Items"] whose Name is api_name.
apis_named(a, api_name) == {id \in a.apis : <<id, api_name>> \in a.apiNames}
\* The first API of get_apis()["Items"] with the wanted name: the provider
\* lists them in the order it created them. None when no API has the name.
first_api(a, api_name) ==
    IF apis_named(a, api_name) = {} THEN None
    ELSE ApiIds[CHOOSE i \in 1..Len(ApiIds) :
                   /\ ApiIds[i] \in apis_named(a, api_name)
                   /\ \A j \in 1..(i - 1) : ApiIds[j] \notin apis_named(a, api_name)]

\* 1. the API, found by name or created; returns its id
find_or_create_api(a, api_name, F) ==
    LET get == <<Call("get_apis", api_name)>>
        create == get \o <<Call("create_api", api_name)>>
    IN  IF "get_apis" \in F THEN Raise(a, get, "ClientError")
        ELSE IF apis_named(a, api_name) # {} THEN Ret(a, get, first_api(a, api_name))
        ELSE IF "create_api" \in F THEN Raise(a, create, "ClientError")
        ELSE Ret([a EXCEPT !.apis = @ \cup {ApiIds[a.apiNext]},
                           !.apiNames = @ \cup {<<ApiIds[a.apiNext], api_name>>},
                           !.apiNext = @ + 1],
                 create, ApiIds[a.apiNext])

\* the account asked of sts for the SourceArn of the permission
source_arn_account(r, api_name, F) ==
    LET l == r.log \o <<Call("get_caller_identity", api_name)>>
    IN  IF r.exc # "none" THEN r
        ELSE IF "get_caller_identity" \in F THEN Raise(r.aws, l, "ClientError")
        ELSE Ret(r.aws, l, r.ret)

\* the integration: one more on every call; returns the API and integration ids
create_integration(r, F) ==
    LET api_id == r.ret
        l == r.log \o <<Call("create_integration", <<api_id>>)>>
        integration_id == Cardinality({x \in r.aws.integs : x.api = api_id}) + 1
    IN  IF r.exc # "none" THEN r
        ELSE IF "create_integration" \in F THEN Raise(r.aws, l, "ClientError")
        ELSE Ret([r.aws EXCEPT !.integs = @ \cup {[api |-> api_id, no |-> integration_id]}],
                 l, [api |-> api_id, integ |-> integration_id])

\* 3. a route: a conflict on the route key is swallowed
create_route(r, route_key, F) ==
    LET l == r.log \o <<Call("create_route", <<r.ret.api, route_key>>)>>
    IN  IF r.exc # "none" THEN r
        ELSE IF "create_route" \in F THEN Raise(r.aws, l, "ClientError")
        ELSE IF \E x \in r.aws.routes : x.api = r.ret.api /\ x.key = route_key
             THEN Ret(r.aws, l, r.ret)
        ELSE Ret([r.aws EXCEPT !.routes = @ \cup
                    {[api |-> r.ret.api, key |-> route_key, target |-> r.ret.integ]}],
                 l, r.ret)

\* 4. the stage: a conflict is swallowed; returns the endpoint
create_stage(r, F) ==
    LET l == r.log \o <<Call("create_stage", <<r.ret.api>>)>>
    IN  IF r.exc # "none" THEN r
        ELSE IF "create_stage" \in F THEN Raise(r.aws, l, "ClientError")
        ELSE Ret([r.aws EXCEPT !.stages = @ \cup {r.ret.api}], l, endpoint_of(r.ret.api))

\* Mutation: the API is created without looking for one of that name.
ensure_http_api_always_creates(a, api_name, lambda_arn, F) ==
    IF "create_api" \in F THEN Raise(a, <<Call("create_api", api_name)>>, "ClientError")
    ELSE Ret([a EXCEPT !.apis = @ \cup {ApiIds[a.apiNext]},
                       !.apiNames = @ \cup {<<ApiIds[a.apiNext], api_name>>},
                       !.apiNext = @ + 1],
             <<Call("create_api", api_name)>>, endpoint_of(ApiIds[a.apiNext]))

ensure_http_api(a, api_name, lambda_arn, F) ==
    One({create_stage(r6, F) :
         r6 \in {create_route(r5, "GET /items/{store}", F) :
         r5 \in {create_route(r4, "GET /items", F) :
         r4 \in {create_integration(r3, F) :
         r3 \in {add_permission(r2, function_of_arn(lambda_arn),
                                <<"ApiGatewayInvoke", r2.ret>>, F) :
         r2 \in {source_arn_account(r1, api_name, F) :
         r1 \in {find_or_create_api(a, api_name, F)}}}}}}})

\* s3.put_bucket_notification_configuration after the permission
put_bucket_notification_configuration(r, bucket_name, lambda_arn, F) ==
    LET l == r.log \o <<Call("put_bucket_notification_configuration", bucket_name)>>
    IN  IF r.exc # "none" THEN r
        ELSE IF \/ "put_bucket_notification_configuration" \in F
                \/ bucket_name \notin r.aws.buckets
                \/ function_of_arn(lambda_arn) \notin r.aws.funcs
             THEN Raise(r.aws, l, "ClientError")
        ELSE Ret([r.aws EXCEPT !.notif = @ \cup {bucket_name}], l, None)

configure_s3_lambda_trigger(a, bucket_name, lambda_arn, function_name, F) ==
    One({put_bucket_notification_configuration(r1, bucket_name, lambda_arn, F) :
         r1 \in {add_permission([aws |-> a, log |-> <<>>, exc |-> "none", ret |-> None],
                                function_name, <<"S3Invoke">> \o bucket_name, F)}})

\* create_topic by name answers with the same ARN for an existing topic.
ensure_sns_topic(a, topic_name, F) ==
    LET l == <<Call("create_topic", topic_name)>>
    IN  IF "create_topic" \in F THEN Raise(a, l, "ClientError")
        ELSE Ret([a EXCEPT !.topics = @ \cup {topic_name}], l, topic_arn_of(topic_name))

\* The topic an ARN built by the provider names.
topic_of_arn(arn) == SubSeq(arn, 2, Len(arn))

\* Mutation: the subscriptions of the topic are listed first and an
\* address that is subscribed already is not subscribed again.
subscribe_email_once(a, topic_arn, email, F) ==
    LET list == <<Call("list_subscriptions_by_topic", topic_arn)>>
        l == list \o <<Call("subscribe", topic_arn \o email)>>
        t == topic_of_arn(topic_arn)
    IN  IF t \notin a.topics THEN Raise(a, list, "ClientError")
        ELSE IF \E x \in a.subs : x.topic = t THEN Ret(a, list, None)
        ELSE IF "subscribe" \in F THEN Raise(a, l, "ClientError")
        ELSE Ret([a EXCEPT !.subs = @ \cup {[topic |-> t, no |-> 1]}], l, None)

subscribe_email(a, topic_arn, email, F) ==
    LET l == <<Call("subscribe", topic_arn \o email)>>
        t == topic_of_arn(topic_arn)
    IN  IF "subscribe" \in F \/ t \notin a.topics THEN Raise(a, l, "ClientError")
        ELSE Ret([a EXCEPT !.subs = @ \cup {[topic |-> t, no |->
                    Cardinality({x \in a.subs : x.topic = t}) + 1]}], l, None)

create_dynamodb_trigger(a, lambda_name, stream_arn, F) ==
    LET l == <<Call("create_event_source_mapping", lambda_name \o stream_arn)>>
    IN  IF "create_event_source_mapping" \in F \/ lambda_name \notin a.funcs
        THEN Raise(a, l, "ClientError")
        ELSE IF \E m \in a.maps : m.fn = lambda_name /\ m.stream = stream_arn
        THEN Ret(a, l, None)   \* ResourceConflictException, caught
        ELSE Ret([a EXCEPT !.maps = @ \cup {[fn |-> lambda_name, stream |-> stream_arn,
                                              uuid |-> a.mapNext]},
                           !.mapNext = @ + 1], l, None)

\* Lines 423-425 of the main block: describe the table and connect its stream.
connect_stream(a, F) ==
    LET l == <<Call("describe_table", TABLE_NAME)>>
    IN  IF "describe_table" \in F \/ ~a.table.exists THEN Raise(a, l, "ClientError")
        ELSE IF a.table.stream
        THEN [create_dynamodb_trigger(a, NOTIFY_FUNC_NAME,
                                      stream_arn_of(TABLE_NAME, a.table.gen), F)
                EXCEPT !.log = l \o @]
        ELSE Ret(a, l, None)

deploy_static_site(a, web_bucket, api_url, index_exists, F) ==
    LET \* disable_bucket_bpa swallows every ClientError
        bpa == <<Call("put_public_access_block", web_bucket)>>
        a1 == IF "put_public_access_block" \in F \/ web_bucket \notin a.buckets THEN a
              ELSE [a EXCEPT !.bpaOff = @ \cup {web_bucket}]
        policy == bpa \o <<Call("put_bucket_policy", web_bucket)>>
        put == policy \o <<Call("put_object", web_bucket \o <<"index.html">>)>>
        site == put \o <<Call("put_bucket_website", web_bucket)>>
        a2 == [a1 EXCEPT !.objects = @ \cup {<<web_bucket, <<"index.html">>>>}]
    IN  IF ~index_exists THEN Ret(a, <<>>, None)
        ELSE IF \/ "put_bucket_policy" \in F
                \/ web_bucket \notin a1.buckets
                \/ web_bucket \notin a1.bpaOff
             THEN Raise(a1, policy, "ClientError")
        ELSE IF "put_object" \in F THEN Raise(a1, put, "ClientError")
        ELSE IF "put_bucket_website" \in F THEN Raise(a2, site, "ClientError")
        ELSE Ret([a2 EXCEPT !.sites = @ \cup {web_bucket}], site, website_url_of(web_bucket))

\* The loop of upload_initial_data over the .csv files: a failed upload is
\* printed and the loop goes on.
RECURSIVE upload_files(_, _, _, _)
upload_files(r, bucket_name, todo, F) ==
    IF todo = <<>> THEN r
    ELSE LET f == Head(todo)
             l == r.log \o <<Call("upload_file", bucket_name \o f)>>
             failed == "upload_file" \in F \/ bucket_name \notin r.aws.buckets
             a2 == IF failed THEN r.aws
                   ELSE [r.aws EXCEPT !.objects = @ \cup {<<bucket_name, f>>}]
         IN  upload_files(Ret(a2, l, None), bucket_name, Tail(todo), F)

upload_initial_data(a, bucket_name, data_exists, F) ==
    IF ~data_exists THEN Ret(a, <<>>, None)
    ELSE upload_files(Ret(a, <<>>, None), bucket_name, DataFiles, F)

(***************************** deploy_script.py main ***********************)
\* Mutation: the gateway is ensured before the function it invokes.
ApplySteps_gateway_first ==
    <<"open", "ensure_bucket_uploads", "ensure_bucket_web", "ensure_inventory_table",
      "labrole_arn", "loader", "ensure_http_api", "api_lambda", "ensure_sns_topic",
      "subscribe_email", "notify", "configure_s3_lambda_trigger", "connect_stream",
      "deploy_static_site", "upload_initial_data", "save_results">>

\* Mutation: the data is uploaded before the triggers are wired.
ApplySteps_upload_first ==
    <<"open", "ensure_bucket_uploads", "ensure_bucket_web", "ensure_inventory_table",
      "labrole_arn", "loader", "api_lambda", "ensure_http_api", "ensure_sns_topic",
      "subscribe_email", "notify", "upload_initial_data", "configure_s3_lambda_trigger",
      "connect_stream", "deploy_static_site", "save_results">>

\* The steps of the main block, in the order of the code.
ApplySteps == <<"open", "ensure_bucket_uploads", "ensure_bucket_web", "ensure_inventory_table",
                "labrole_arn", "loader", "api_lambda", "ensure_http_api", "ensure_sns_topic",
                "subscribe_email", "notify", "configure_s3_lambda_trigger", "connect_stream",
                "deploy_static_site", "upload_initial_data", "save_results">>

\* The provider calls (and local reads) of each step that can fail on their own.
ApplyFaults(step) ==
    CASE step = "open" -> {}
      [] step \in {"ensure_bucket_uploads", "ensure_bucket_web"} ->
            {"head_bucket", "create_bucket", "BucketAlreadyExists"}
      [] step = "ensure_inventory_table" -> {"create_table", "table_exists", "describe_table"}
      [] step = "labrole_arn" -> {"get_caller_identity"}
      [] step \in {"loader", "api_lambda", "notify"} ->
            {"zip", "get_caller_identity", "create_function", "update_function_code",
             "function_updated", "update_function_configuration"}
      [] step = "ensure_http_api" ->
            {"get_apis", "create_api", "get_caller_identity", "add_permission",
             "create_integration", "create_route", "create_stage"}
      [] step = "ensure_sns_topic" -> {"create_topic"}
      [] step = "subscribe_email" -> {"subscribe"}
      [] step = "configure_s3_lambda_trigger" ->
            {"add_permission", "put_bucket_notification_configuration"}
      [] step = "connect_stream" -> {"describe_table", "create_event_source_mapping"}
      [] step = "deploy_static_site" ->
            {"put_public_access_block", "put_bucket_policy", "put_object", "put_bucket_website"}
      [] step = "upload_initial_data" -> {"upload_file"}
      [] step = "save_results" -> {}

NoLoc == [suffix |-> None, uploads_bucket |-> None, web_bucket |-> None,
          sns_topic_name |-> None, table_arn |-> None, role |-> None, loader_arn |-> None,
          api_lambda_arn |-> None, api_url |-> None, sns_topic_arn |-> None,
          notify_arn |-> None, web_url |-> None, sns_arn |-> None]

\* The state a step leaves: the shelve file, the locals, the remote state,
\* the calls issued and the exception that ended the step, if any.
Out(d, l, r) == [db |-> d, loc |-> l, aws |-> r.aws, log |-> r.log, exc |-> r.exc]
Bind(l, var, r) == IF r.exc = "none" THEN [l EXCEPT ![var] = r.ret] ELSE l

\* Mutation: a suffix is generated and stored on every run.
open_record_regenerates(d, l, fresh) ==
    LET d2 == DbSet(DbSet(DbSet(d, "suffix", fresh), "uploads-bucket", uploads_bucket_name(fresh)),
                    "web-bucket", web_bucket_name(fresh))
    IN  [db |-> d2,
         loc |-> [l EXCEPT !.suffix = fresh, !.uploads_bucket = uploads_bucket_name(fresh),
                           !.web_bucket = web_bucket_name(fresh),
                           !.sns_topic_name = sns_topic_name(fresh)]]

\* Lines 366-382: the suffix is read from the file or generated and stored
\* (fresh is what unique_suffix() returns), then the bucket names are stored.
open_record(d, l, fresh) ==
    LET suffix == IF "suffix" \in DOMAIN d THEN d["suffix"] ELSE fresh
        d1 == IF "suffix" \in DOMAIN d THEN d ELSE DbSet(d, "suffix", suffix)
        uploads_bucket == uploads_bucket_name(suffix)
        web_bucket == web_bucket_name(suffix)
        d2 == DbSet(DbSet(d1, "uploads-bucket", uploads_bucket), "web-bucket", web_bucket)
    IN  [db |-> d2,
         loc |-> [l EXCEPT !.suffix = suffix, !.uploads_bucket = uploads_bucket,
                           !.web_bucket = web_bucket,
                           !.sns_topic_name = sns_topic_name(suffix)]]

\* Lines 440-443.
save_results(d, l) ==
    DbSet(DbSet(DbSet(DbSet(d, "api-url", l.api_url), "web-url", l.web_url),
                "table-arn", l.table_arn), "sns-arn", l.sns_topic_arn)

\* A function step: the archive is built, then the function is ensured.
lambda_step(a, function_name, F) ==
    IF build_lambda_zip_bytes(a, F).exc # "none" THEN build_lambda_zip_bytes(a, F)
    ELSE ensure_lambda_generic(a, function_name, F)

\* One step of the main block on the world w = [db, loc, aws]: the helper
\* is called once and its result, when it returns, is bound to a local.
step_result(step, l, a, F, fs) ==
    CASE step = "ensure_bucket_uploads" -> ensure_bucket(a, l.uploads_bucket, F)
      [] step = "ensure_bucket_web" -> ensure_bucket(a, l.web_bucket, F)
      [] step = "ensure_inventory_table" -> ensure_inventory_table(a, TABLE_NAME, F)
      [] step = "labrole_arn" -> labrole_arn(a, F)
      [] step = "loader" -> lambda_step(a, LOADER_FUNC_NAME, F)
      [] step = "api_lambda" -> lambda_step(a, API_FUNC_NAME, F)
      [] step = "ensure_http_api" -> ensure_http_api(a, API_NAME, l.api_lambda_arn, F)
      [] step = "ensure_sns_topic" -> ensure_sns_topic(a, l.sns_topic_name, F)
      [] step = "subscribe_email" -> subscribe_email(a, l.sns_topic_arn, EMAIL_NOTIFY, F)
      [] step = "notify" -> lambda_step(a, NOTIFY_FUNC_NAME, F)
      [] step = "configure_s3_lambda_trigger" ->
            configure_s3_lambda_trigger(a, l.uploads_bucket, l.loader_arn, LOADER_FUNC_NAME, F)
      [] step = "connect_stream" -> connect_stream(a, F)
      [] step = "deploy_static_site" -> deploy_static_site(a, l.web_bucket, l.api_url, fs.index, F)
      [] step = "upload_initial_data" -> upload_initial_data(a, l.uploads_bucket, fs.data, F)

\* The local variable a step assigns its helper's result to.
step_target(step) ==
    CASE step = "ensure_inventory_table" -> "table_arn"
      [] step = "labrole_arn" -> "role"
      [] step = "loader" -> "loader_arn"
      [] step = "api_lambda" -> "api_lambda_arn"
      [] step = "ensure_http_api" -> "api_url"
      [] step = "ensure_sns_topic" -> "sns_topic_arn"
      [] step = "notify" -> "notify_arn"
      [] step = "deploy_static_site" -> "web_url"
      [] OTHER -> "none"

\* Mutation: the table step takes the identifier the file holds, when it
\* holds one, and asks the provider for nothing.
apply_step_reuses_table_arn(step, w, F, fresh, fs) ==
    CASE step = "open" ->
           [db |-> open_record(w.db, w.loc, fresh).db, loc |-> open_record(w.db, w.loc, fresh).loc,
            aws |-> w.aws, log |-> <<>>, exc |-> "none"]
      [] step = "save_results" ->
           [db |-> save_results(w.db, w.loc), loc |-> w.loc, aws |-> w.aws, log |-> <<>>,
            exc |-> "none"]
      [] step = "ensure_inventory_table" /\ "table-arn" \in DOMAIN w.db ->
           [db |-> w.db, loc |-> [w.loc EXCEPT !.table_arn = w.db["table-arn"]],
            aws |-> w.aws, log |-> <<>>, exc |-> "none"]
      [] OTHER ->
           One({Out(w.db, IF step_target(step) = "none" THEN w.loc
                          ELSE Bind(w.loc, step_target(step), r), r) :
                r \in {step_result(step, w.loc, w.aws, F, fs)}})

apply_step(step, w, F, fresh, fs) ==
    CASE step = "open" ->
           [db |-> open_record(w.db, w.loc, fresh).db, loc |-> open_record(w.db, w.loc, fresh).loc,
            aws |-> w.aws, log |-> <<>>, exc |-> "none"]
      [] step = "save_results" ->
           [db |-> save_results(w.db, w.loc), loc |-> w.loc, aws |-> w.aws, log |-> <<>>,
            exc |-> "none"]
      [] OTHER ->
           One({Out(w.db, IF step_target(step) = "none" THEN w.loc
                          ELSE Bind(w.loc, step_target(step), r), r) :
                r \in {step_result(step, w.loc, w.aws, F, fs)}})

\* The whole main block without any failure, from step i on.
RECURSIVE run_from(_, _, _, _)
run_from(i, w, fresh, fs) ==
    IF i > Len(ApplySteps) THEN w
    ELSE One({IF o.exc # "none" THEN [w EXCEPT !.exc = o.exc]
              ELSE run_from(i + 1, [db |-> o.db, loc |-> o.loc, aws |-> o.aws, exc |-> "none"],
                            fresh, fs) :
              o \in {apply_step(ApplySteps[i], w, {}, fresh, fs)}})

(***************************** teardown.py helpers *************************)
\* https://<api_id>.execute-api... -> <api_id>
api_id_of_url(api_url) == api_url[2]

\* delete_api_gateway: IndexError and ClientError are printed and swallowed.
delete_api_gateway(a, api_url, F) ==
    IF api_url = None THEN Ret(a, <<>>, None)
    ELSE IF Len(api_url) < 2 \/ api_url[1] # "https://" THEN Ret(a, <<>>, None)
    ELSE LET api_id == api_id_of_url(api_url)
             l == <<Call("delete_api", <<api_id>>)>>
         IN  IF "delete_api" \in F \/ api_id \notin a.apis THEN Ret(a, l, None)
             ELSE Ret([a EXCEPT !.apis = @ \ {api_id},
                                !.apiNames = {x \in @ : x[1] # api_id},
                                !.integs = {x \in @ : x.api # api_id},
                                !.routes = {x \in @ : x.api # api_id},
                                !.stages = @ \ {api_id}], l, None)

\* The loop of delete_triggers over the listed mappings, in the order of
\* the listing: the first ClientError ends the loop (and is swallowed).
RECURSIVE delete_mappings(_, _, _)
delete_mappings(r, todo, F) ==
    IF todo = {} THEN r
    ELSE LET m == CHOOSE x \in todo : \A y \in todo : x.uuid <= y.uuid
             l == r.log \o <<Call("delete_event_source_mapping", m.fn \o <<UuidLabels[m.uuid]>>)>>
         IN  IF "delete_event_source_mapping" \in F THEN Ret(r.aws, l, None)
             ELSE delete_mappings(Ret([r.aws EXCEPT !.maps = @ \ {m}], l, None), todo \ {m}, F)

delete_triggers(a, func_name, F) ==
    LET l == <<Call("list_event_source_mappings", func_name)>>
        mappings == {m \in a.maps : m.fn = func_name}
    IN  IF "list_event_source_mappings" \in F THEN Ret(a, l, None)
        ELSE IF func_name \notin a.funcs /\ mappings = {} THEN Ret(a, l, None)
        ELSE delete_mappings(Ret(a, l, None), mappings, F)

\* Mutation: the not-found answer of delete_function is not caught.
delete_lambda_raises_not_found(a, func_name, F) ==
    LET l == <<Call("delete_function", func_name)>>
    IN  IF "delete_function" \in F THEN Ret(a, l, None)
        ELSE IF func_name \notin a.funcs THEN Raise(a, l, "ClientError")
        ELSE Ret([a EXCEPT !.funcs = @ \ {func_name},
                           !.perms = {x \in @ : x[1] # func_name}], l, None)

delete_lambda(a, func_name, F) ==
    LET l == <<Call("delete_function", func_name)>>
    IN  IF "delete_function" \in F \/ func_name \notin a.funcs THEN Ret(a, l, None)
        ELSE Ret([a EXCEPT !.funcs = @ \ {func_name},
                           !.perms = {x \in @ : x[1] # func_name}], l, None)

\* delete_dynamo_table: only ClientError is caught; the waiter gives up with
\* WaiterError, which is no ClientError.
delete_dynamo_table(a, table_name, F) ==
    LET del == <<Call("delete_table", table_name)>>
        wait == del \o <<Call("wait_table_not_exists", table_name)>>
        deleted == [a EXCEPT !.table.exists = FALSE, !.table.stream = FALSE]
    IN  IF "delete_table" \in F \/ ~a.table.exists THEN Ret(a, del, None)
        ELSE IF "table_not_exists" \in F THEN Raise(deleted, wait, "WaiterError")
        ELSE Ret(deleted, wait, None)

delete_sns_topic(a, topic_arn, F) ==
    IF topic_arn = None THEN Ret(a, <<>>, None)
    ELSE LET l == <<Call("delete_topic", topic_arn)>>
             t == topic_of_arn(topic_arn)
         IN  IF "delete_topic" \in F THEN Ret(a, l, None)
             ELSE Ret([a EXCEPT !.topics = @ \ {t},
                                !.subs = {x \in @ : x.topic # t}], l, None)

\* empty_bucket on a bucket without versioning: every object is listed by
\* list_object_versions (VersionId "null") and deleted in one batch, after
\* which list_objects_v2 has nothing left. Any ClientError ends the emptying.
\* (The pages and the batches of the two listings are in empty_bucket_pages.)
empty_bucket(a, bucket, F) ==
    LET objs == {o \in a.objects : o[1] = bucket}
        l1 == <<Call("list_object_versions", bucket)>>
        l2 == IF objs = {} THEN l1 ELSE l1 \o <<Call("delete_objects", bucket)>>
        l3 == l2 \o <<Call("list_objects_v2", bucket)>>
        emptied == [a EXCEPT !.objects = @ \ objs]
    IN  IF bucket = None THEN Ret(a, <<>>, None)
        ELSE IF "list_object_versions" \in F \/ bucket \notin a.buckets THEN Ret(a, l1, None)
        ELSE IF objs # {} /\ "delete_objects" \in F THEN Ret(a, l2, None)
        ELSE IF "list_objects_v2" \in F THEN Ret(emptied, l3, None)
        ELSE Ret(emptied, l3, None)

\* The delete_bucket call that follows the emptying (e is what empty_bucket left).
delete_emptied_bucket(e, bucket_name, F) ==
    LET l == <<Call("get_bucket_location", bucket_name)>> \o e.log
                \o <<Call("delete_bucket", bucket_name)>>
    IN  IF "delete_bucket" \in F \/ (\E o \in e.aws.objects : o[1] = bucket_name)
        THEN Ret(e.aws, l, None)
        ELSE Ret([e.aws EXCEPT !.buckets = @ \ {bucket_name}, !.notif = @ \ {bucket_name},
                               !.bpaOff = @ \ {bucket_name}, !.sites = @ \ {bucket_name}],
                 l, None)

delete_bucket(a, bucket_name, F) ==
    IF bucket_name = None THEN Ret(a, <<>>, None)
    ELSE IF "get_bucket_location" \in F \/ bucket_name \notin a.buckets
         THEN Ret(a, <<Call("get_bucket_location", bucket_name)>>, None)
    ELSE One({delete_emptied_bucket(e, bucket_name, F) : e \in {empty_bucket(a, bucket_name, F)}})

(***************************** teardown.py main ****************************)
\* Mutation: the table is deleted before the triggers and the functions.
TeardownSteps_table_first == <<"read_and_clear", "delete_api_gateway", "delete_dynamo_table",
                   "delete_triggers_loader", "delete_lambda_loader",
                   "delete_triggers_api", "delete_lambda_api",
                   "delete_triggers_notify", "delete_lambda_notify", "delete_sns_topic",
                   "delete_bucket_uploads", "delete_bucket_web">>

TeardownSteps == <<"read_and_clear", "delete_api_gateway",
                   "delete_triggers_loader", "delete_lambda_loader",
                   "delete_triggers_api", "delete_lambda_api",
                   "delete_triggers_notify", "delete_lambda_notify",
                   "delete_dynamo_table", "delete_sns_topic",
                   "delete_bucket_uploads", "delete_bucket_web">>

TeardownFaults(step) ==
    CASE step = "read_and_clear" -> {}
      [] step = "delete_api_gateway" -> {"delete_api"}
      [] step \in {"delete_triggers_loader", "delete_triggers_api", "delete_triggers_notify"} ->
            {"list_event_source_mappings", "delete_event_source_mapping"}
      [] step \in {"delete_lambda_loader", "delete_lambda_api", "delete_lambda_notify"} ->
            {"delete_function"}
      [] step = "delete_dynamo_table" -> {"delete_table", "table_not_exists"}
      [] step = "delete_sns_topic" -> {"delete_topic"}
      [] step \in {"delete_bucket_uploads", "delete_bucket_web"} ->
            {"get_bucket_location", "list_object_versions", "delete_objects",
             "list_objects_v2", "delete_bucket"}

\* Mutation: the identifiers are read and the file is left as it is.
read_and_clear_keeps_record(d, l) ==
    [db |-> d,
     loc |-> [l EXCEPT !.uploads_bucket = DbGet(d, "uploads-bucket"),
                       !.web_bucket = DbGet(d, "web-bucket"),
                       !.api_url = DbGet(d, "api-url"),
                       !.sns_arn = DbGet(d, "sns-arn")]]

\* Lines 128-136: the four identifiers are read, then the file is cleared.
read_and_clear(d, l) ==
    [db |-> EmptyDb,
     loc |-> [l EXCEPT !.uploads_bucket = DbGet(d, "uploads-bucket"),
                       !.web_bucket = DbGet(d, "web-bucket"),
                       !.api_url = DbGet(d, "api-url"),
                       !.sns_arn = DbGet(d, "sns-arn")]]

\* One step of the main block of teardown.py on the world w = [db, loc, aws].
teardown_result(step, l, a, F) ==
    CASE step = "delete_api_gateway" -> delete_api_gateway(a, l.api_url, F)
      [] step = "delete_triggers_loader" -> delete_triggers(a, LOADER_FUNC_NAME, F)
      [] step = "delete_lambda_loader" -> delete_lambda(a, LOADER_FUNC_NAME, F)
      [] step = "delete_triggers_api" -> delete_triggers(a, API_FUNC_NAME, F)
      [] step = "delete_lambda_api" -> delete_lambda(a, API_FUNC_NAME, F)
      [] step = "delete_triggers_notify" -> delete_triggers(a, NOTIFY_FUNC_NAME, F)
      [] step = "delete_lambda_notify" -> delete_lambda(a, NOTIFY_FUNC_NAME, F)
      [] step = "delete_dynamo_table" -> delete_dynamo_table(a, TABLE_NAME, F)
      [] step = "delete_sns_topic" -> delete_sns_topic(a, l.sns_arn, F)
      [] step = "delete_bucket_uploads" -> delete_bucket(a, l.uploads_bucket, F)
      [] step = "delete_bucket_web" -> delete_bucket(a, l.web_bucket, F)

teardown_step(step, w, F) ==
    IF step = "read_and_clear"
    THEN [db |-> read_and_clear(w.db, w.loc).db, loc |-> read_and_clear(w.db, w.loc).loc,
          aws |-> w.aws, log |-> <<>>, exc |-> "none"]
    ELSE One({Out(w.db, w.loc, r) : r \in {teardown_result(step, w.loc, w.aws, F)}})

(***************************** state ***************************************)
EmptyAws == [buckets |-> {}, objects |-> {}, notif |-> {}, bpaOff |-> {}, sites |-> {},
             table |-> [exists |-> FALSE, stream |-> FALSE, gen |-> 0],
             funcs |-> {}, perms |-> {}, apis |-> {}, apiNames |-> {}, apiNext |-> 1,
             integs |-> {},
             routes |-> {}, stages |-> {}, topics |-> {}, subs |-> {},
             maps |-> {}, mapNext |-> 1]

Init ==
    /\ db = EmptyDb
    /\ aws = EmptyAws
    /\ files \in {[index |-> b, data |-> b] : b \in BOOLEAN}
    /\ loc = NoLoc
    /\ pc = "idle"
    /\ log = <<>>
    /\ status = [run |-> "none", end |-> "none", at |-> "none", exc |-> "none"]
    /\ hist = [aws0 |-> EmptyAws, clean |-> FALSE, created |-> {},
               applies |-> 0, aborted |-> FALSE, gone |-> FALSE, table0 |-> EmptyAws.table,
               afterAbort |-> FALSE, quiet |-> FALSE]
    /\ runs = 0
    /\ faults = 0
    /\ input = None
    /\ output = None

\* The names of the buckets and topics that the calls of l ask to create.
created_names(l) ==
    {l[i].arg : i \in {j \in 1..Len(l) : l[j].op \in {"create_bucket", "create_topic"}}}

NextStep(steps, step) ==
    LET i == CHOOSE j \in 1..Len(steps) : steps[j] = step
    IN  IF i = Len(steps) THEN "idle" ELSE steps[i + 1]

\* Nothing of the deployment exists remotely.
NoResources(a) ==
    /\ a.buckets = {} /\ a.objects = {} /\ ~a.table.exists /\ a.funcs = {}
    /\ a.apis = {} /\ a.topics = {} /\ a.maps = {}

(***************************** actions *************************************)
\* A set of failures is injected only when each of them is felt: a failure of
\* a call the step never reaches is no failure of this run.
FeltApply(step, w, F, fresh, fs) ==
    \A f \in F : apply_step(step, w, F \ {f}, fresh, fs) # apply_step(step, w, F, fresh, fs)

\* One step of an apply run. An exception that leaves the main block closes
\* the shelve file (what was stored stays stored) and ends the process.
ApplyStep(step) ==
    /\ IF step = "open" THEN pc = "idle" /\ runs < MaxRuns
       ELSE pc = step /\ status.run = "apply"
    /\ \E F \in SUBSET ApplyFaults(step) :
       \E fresh \in (IF step = "open" THEN Suffixes ELSE {None}) :
          /\ Cardinality(F) <= MaxFaults - faults
          /\ \E w \in {[db |-> db, loc |-> IF step = "open" THEN NoLoc ELSE loc, aws |-> aws]} :
             \E o \in {apply_step(step, w, F, fresh, files)} :
             LET end == IF o.exc # "none" THEN "aborted"
                        ELSE IF step = "save_results" THEN "done" ELSE "running"
             IN  /\ FeltApply(step, w, F, fresh, files)
                 /\ db' = o.db
                 /\ aws' = o.aws
                 /\ loc' = o.loc
                 /\ log' = (IF step = "open" THEN <<>> ELSE log) \o o.log
                 /\ pc' = IF o.exc # "none" THEN "idle" ELSE NextStep(ApplySteps, step)
                 /\ status' = [run |-> "apply", end |-> end, at |-> step, exc |-> o.exc]
                 /\ hist' = IF step = "open" /\ "suffix" \notin DOMAIN db
                            THEN [hist EXCEPT !.aws0 = aws, !.clean = TRUE, !.created = {},
                                              !.applies = 1, !.aborted = FALSE,
                                              !.table0 = aws.table,
                                              !.afterAbort = FALSE, !.quiet = FALSE]
                            ELSE [hist EXCEPT
                                    !.table0 = IF step = "open" THEN aws.table ELSE @,
                                    !.afterAbort = FALSE, !.quiet = FALSE,
                                    !.created = @ \cup created_names(o.log),
                                    !.applies = IF step = "open" THEN @ + 1 ELSE @,
                                    !.aborted = @ \/ o.exc # "none"]
                 /\ faults' = faults + Cardinality(F)
    /\ runs' = IF step = "open" THEN runs + 1 ELSE runs
    /\ UNCHANGED <<files, input, output>>

A_open == ApplyStep("open")
A_ensure_bucket_uploads == ApplyStep("ensure_bucket_uploads")
A_ensure_bucket_web == ApplyStep("ensure_bucket_web")
A_ensure_inventory_table == ApplyStep("ensure_inventory_table")
A_labrole_arn == ApplyStep("labrole_arn")
A_loader == ApplyStep("loader")
A_api_lambda == ApplyStep("api_lambda")
A_ensure_http_api == ApplyStep("ensure_http_api")
A_ensure_sns_topic == ApplyStep("ensure_sns_topic")
A_subscribe_email == ApplyStep("subscribe_email")
A_notify == ApplyStep("notify")
A_configure_s3_lambda_trigger == ApplyStep("configure_s3_lambda_trigger")
A_connect_stream == ApplyStep("connect_stream")
A_deploy_static_site == ApplyStep("deploy_static_site")
A_upload_initial_data == ApplyStep("upload_initial_data")
A_save_results == ApplyStep("save_results")

FeltTeardown(step, w, F) ==
    \A f \in F : teardown_step(step, w, F \ {f}) # teardown_step(step, w, F)

\* One step of a destroy run.
TeardownStep(step) ==
    /\ IF step = "read_and_clear" THEN pc = "idle" /\ runs < MaxRuns
       ELSE pc = step /\ status.run = "destroy"
    /\ \E F \in SUBSET TeardownFaults(step) :
          /\ Cardinality(F) <= MaxFaults - faults
          /\ \E w \in {[db |-> db, loc |-> IF step = "read_and_clear" THEN NoLoc ELSE loc,
                         aws |-> aws]} :
             \E o \in {teardown_step(step, w, F)} :
             LET end == IF o.exc # "none" THEN "aborted"
                        ELSE IF NextStep(TeardownSteps, step) = "idle" THEN "done"
                        ELSE "running"
             IN  /\ FeltTeardown(step, w, F)
                 /\ db' = o.db
                 /\ aws' = o.aws
                 /\ loc' = o.loc
                 /\ log' = (IF step = "read_and_clear" THEN <<>> ELSE log) \o o.log
                 /\ pc' = IF o.exc # "none" THEN "idle" ELSE NextStep(TeardownSteps, step)
                 /\ status' = [run |-> "destroy", end |-> end, at |-> step, exc |-> o.exc]
                 /\ hist' = IF step = "read_and_clear"
                            THEN [hist EXCEPT !.clean = FALSE, !.created = {}, !.applies = 0,
                                              !.aborted = FALSE, !.gone = NoResources(aws),
                                              !.afterAbort = (status.run = "apply"
                                                              /\ status.end = "aborted"),
                                              !.quiet = TRUE]
                            ELSE [hist EXCEPT !.quiet = @ /\ F = {}]
                 /\ faults' = faults + Cardinality(F)
    /\ runs' = IF step = "read_and_clear" THEN runs + 1 ELSE runs
    /\ UNCHANGED <<files, input, output>>

T_read_and_clear == TeardownStep("read_and_clear")
T_delete_api_gateway == TeardownStep("delete_api_gateway")
T_delete_triggers_loader == TeardownStep("delete_triggers_loader")
T_delete_lambda_loader == TeardownStep("delete_lambda_loader")
T_delete_triggers_api == TeardownStep("delete_triggers_api")
T_delete_lambda_api == TeardownStep("delete_lambda_api")
T_delete_triggers_notify == TeardownStep("delete_triggers_notify")
T_delete_lambda_notify == TeardownStep("delete_lambda_notify")
T_delete_dynamo_table == TeardownStep("delete_dynamo_table")
T_delete_sns_topic == TeardownStep("delete_sns_topic")
T_delete_bucket_uploads == TeardownStep("delete_bucket_uploads")
T_delete_bucket_web == TeardownStep("delete_bucket_web")

\* Between two runs an operator removes every remote resource by hand.
OutOfBandDeleteAll ==
    /\ pc = "idle"
    /\ status.run # "none"
    /\ faults < MaxFaults
    /\ aws' = [EmptyAws EXCEPT !.apiNext = aws.apiNext, !.mapNext = aws.mapNext,
                               !.table = [exists |-> FALSE, stream |-> FALSE,
                                          gen |-> aws.table.gen]]
    /\ aws' # aws
    /\ hist' = [hist EXCEPT !.clean = FALSE, !.quiet = FALSE]
    /\ faults' = faults + 1
    /\ UNCHANGED <<db, files, loc, pc, log, status, runs, input, output>>

\* Between two runs an operator deletes the table by hand.
OutOfBandDeleteTable ==
    /\ pc = "idle"
    /\ status.run # "none"
    /\ faults < MaxFaults
    /\ aws.table.exists
    /\ aws' = [aws EXCEPT !.table.exists = FALSE, !.table.stream = FALSE]
    /\ hist' = [hist EXCEPT !.clean = FALSE, !.quiet = FALSE]
    /\ faults' = faults + 1
    /\ UNCHANGED <<db, files, loc, pc, log, status, runs, input, output>>

\* Before or between the runs somebody creates a table of the fixed name
\* Inventory by hand, without a stream.
OutOfBandCreateTable ==
    /\ pc = "idle"
    /\ faults < MaxFaults
    /\ ~aws.table.exists
    /\ aws' = [aws EXCEPT !.table = [exists |-> TRUE, stream |-> FALSE, gen |-> @.gen + 1]]
    /\ hist' = [hist EXCEPT !.clean = FALSE, !.gone = FALSE, !.quiet = FALSE]
    /\ faults' = faults + 1
    /\ UNCHANGED <<db, files, loc, pc, log, status, runs, input, output>>

Next ==
    \/ A_open
    \/ A_ensure_bucket_uploads
    \/ A_ensure_bucket_web
    \/ A_ensure_inventory_table
    \/ A_labrole_arn
    \/ A_loader
    \/ A_api_lambda
    \/ A_ensure_http_api
    \/ A_ensure_sns_topic
    \/ A_subscribe_email
    \/ A_notify
    \/ A_configure_s3_lambda_trigger
    \/ A_connect_stream
    \/ A_deploy_static_site
    \/ A_upload_initial_data
    \/ A_save_results
    \/ T_read_and_clear
    \/ T_delete_api_gateway
    \/ T_delete_triggers_loader
    \/ T_delete_lambda_loader
    \/ T_delete_triggers_api
    \/ T_delete_lambda_api
    \/ T_delete_triggers_notify
    \/ T_delete_lambda_notify
    \/ T_delete_dynamo_table
    \/ T_delete_sns_topic
    \/ T_delete_bucket_uploads
    \/ T_delete_bucket_web
    \/ OutOfBandDeleteAll
    \/ OutOfBandDeleteTable
    \/ OutOfBandCreateTable

Spec == Init /\ [][Next]_vars

(***************************** properties **********************************)
(***************************** empty_bucket on its own **********************)
\* Lines 43-44 and 52-53: the size of a delete_objects batch.
BatchSize == 1000
\* The pages a listing returns at most.
MaxPages == 2

BUCKET == <<"inventory-uploads", "20240101", "abcd1234">>

RECURSIVE Flatten(_)
Flatten(ss) == IF ss = <<>> THEN <<>> ELSE Head(ss) \o Flatten(Tail(ss))

\* page.get(key, [])
PageGet(page, key) == IF key \in DOMAIN page THEN page[key] ELSE <<>>

\* Mutation: the references of a page go out in one call.
batches_whole(objects_to_delete) == <<objects_to_delete>>

\* Lines 43-44 and 52-53: for i in range(0, len(objects_to_delete), 1000):
\* batch = objects_to_delete[i:i+1000].
batches(objects_to_delete) ==
    LET n == Len(objects_to_delete)
    IN  [b \in 1..((n + BatchSize - 1) \div BatchSize) |->
            SubSeq(objects_to_delete, (b - 1) * BatchSize + 1,
                   IF b * BatchSize < n THEN b * BatchSize ELSE n)]

\* Line 45 and 54, one call per batch (none when the list is empty, 41, 51).
delete_calls(bucket, objects_to_delete) ==
    LET bs == batches(objects_to_delete)
    IN  [b \in 1..Len(bs) |->
            Call("delete_objects", [Bucket |-> bucket, Objects |-> bs[b], Quiet |-> TRUE])]

\* Lines 34-45: the fetch of one page of list_object_versions and the calls
\* that follow it.
versions_page_calls(bucket, page) ==
    LET vs == PageGet(page, "Versions")
        ms == PageGet(page, "DeleteMarkers")
        objects_to_delete ==
            [i \in 1..Len(vs) |-> [Key |-> vs[i].Key, VersionId |-> vs[i].VersionId]]
            \o [i \in 1..Len(ms) |-> [Key |-> ms[i].Key, VersionId |-> ms[i].VersionId]]
    IN  <<Call("list_object_versions", [Bucket |-> bucket])>>
        \o delete_calls(bucket, objects_to_delete)

\* Lines 49-54: the same for one page of list_objects_v2.
objects_page_calls(bucket, page) ==
    LET cs == PageGet(page, "Contents")
        objects_to_delete == [i \in 1..Len(cs) |-> [Key |-> cs[i].Key]]
    IN  <<Call("list_objects_v2", [Bucket |-> bucket])>>
        \o delete_calls(bucket, objects_to_delete)

\* The exceptions a call can raise: two ClientError codes and an error that
\* is no ClientError.
ClientErrorCodes == {"NoSuchBucket", "AccessDenied"}
ErrorCodes == ClientErrorCodes \cup {"EndpointConnectionError"}

\* Lines 25-60. versions and objects are the pages the two paginators return
\* (one provider call per page); fail = [at, code] makes the at-th provider
\* call raise code (at = 0: no call fails). The result is the calls issued,
\* the line printed by the handler and the exception that leaves the function.
empty_bucket_pages(bucket, versions, objects, fail) ==
    LET calls == Flatten([p \in 1..Len(versions) |-> versions_page_calls(bucket, versions[p])])
                 \o Flatten([p \in 1..Len(objects) |-> objects_page_calls(bucket, objects[p])])
    IN  IF bucket = None THEN [log |-> <<>>, printed |-> "none", exc |-> "none"]
        ELSE IF fail.at = 0 \/ fail.at > Len(calls)
             THEN [log |-> calls, printed |-> "none", exc |-> "none"]
        ELSE IF fail.code = "NoSuchBucket"
             THEN [log |-> SubSeq(calls, 1, fail.at), printed |-> "ya no existe", exc |-> "none"]
        ELSE IF fail.code \in ClientErrorCodes
             THEN [log |-> SubSeq(calls, 1, fail.at), printed |-> "ERROR", exc |-> "none"]
        ELSE [log |-> SubSeq(calls, 1, fail.at), printed |-> "none", exc |-> fail.code]

\* What the provider lists: a page of list_object_versions with nv versions
\* and nm delete markers, a page of list_objects_v2 with nc objects. A key of
\* the response that would be empty is left out, as the provider does.
Field(key, seq) == IF seq = <<>> THEN <<>> ELSE [k \in {key} |-> seq]
VersionsPage(p, nv, nm) ==
    Field("Versions", [i \in 1..nv |-> [Key |-> <<"v", p, i>>, VersionId |-> <<"id", p, i>>,
                                        IsLatest |-> TRUE]])
    @@ Field("DeleteMarkers", [i \in 1..nm |-> [Key |-> <<"m", p, i>>,
                                                VersionId |-> <<"id", p, nv + i>>,
                                                IsLatest |-> FALSE]])
ContentsPage(p, nc) == Field("Contents", [i \in 1..nc |-> [Key |-> <<"o", p, i>>, Size |-> 1]])

list_object_versions(counts) == [p \in 1..Len(counts) |-> VersionsPage(p, counts[p][1], counts[p][2])]
list_objects_v2(counts) == [p \in 1..Len(counts) |-> ContentsPage(p, counts[p])]

\* The sizes of the pages: versions and delete markers, plain objects.
VersionCounts == {<<0, 0>>, <<1, 1>>, <<BatchSize - 1, 2>>, <<BatchSize, BatchSize + 1>>}
ContentCounts == {0, 1, BatchSize + 1}
SeqsUpTo(S, n) == UNION {[1..k -> S] : k \in 1..n}

\* The listings: each of the two has a page at least, and one of them only
\* has more than one.
Listings ==
    {l \in [versions : SeqsUpTo(VersionCounts, MaxPages), objects : SeqsUpTo(ContentCounts, MaxPages)] :
        Len(l.versions) + Len(l.objects) <= MaxPages + 1}

Ceil(n) == (n + BatchSize - 1) \div BatchSize
RECURSIVE NumCalls(_, _)
NumCalls(vc, oc) ==
    IF vc # <<>> THEN 1 + Ceil(Head(vc)[1] + Head(vc)[2]) + NumCalls(Tail(vc), oc)
    ELSE IF oc # <<>> THEN 1 + Ceil(Head(oc)) + NumCalls(vc, Tail(oc))
    ELSE 0

NoFail == [at |-> 0, code |-> "none"]
\* The failure of one of the n calls.
Fails(n) == {[at |-> i, code |-> c] : i \in 1..n, c \in ErrorCodes}

\* The arguments of empty_bucket: no bucket name; every listing without
\* failure; the listings of one page each with the failure of one call.
EmptyInputs ==
    {[fn |-> "empty_bucket", bucket |-> None, versions |-> <<>>, objects |-> <<>>, fail |-> NoFail]}
    \cup {[fn |-> "empty_bucket", bucket |-> BUCKET, versions |-> l.versions,
           objects |-> l.objects, fail |-> NoFail] : l \in Listings}
    \cup UNION {{[fn |-> "empty_bucket", bucket |-> BUCKET, versions |-> l.versions,
                  objects |-> l.objects, fail |-> f] : f \in Fails(NumCalls(l.versions, l.objects))} :
                   l \in {m \in Listings : Len(m.versions) = 1 /\ Len(m.objects) = 1}}

InitEmpty ==
    /\ db = EmptyDb /\ aws = EmptyAws /\ files = [index |-> FALSE, data |-> FALSE]
    /\ loc = NoLoc /\ pc = "call" /\ log = <<>>
    /\ status = [run |-> "none", end |-> "none", at |-> "none", exc |-> "none"]
    /\ hist = [aws0 |-> EmptyAws, clean |-> FALSE, created |-> {},
               applies |-> 0, aborted |-> FALSE, gone |-> FALSE, table0 |-> EmptyAws.table,
               afterAbort |-> FALSE, quiet |-> FALSE]
    /\ runs = 0 /\ faults = 0
    /\ input \in EmptyInputs
    /\ output = None

EmptyBucket ==
    /\ pc = "call" /\ input.fn = "empty_bucket"
    /\ output' = empty_bucket_pages(input.bucket, list_object_versions(input.versions),
                                    list_objects_v2(input.objects), input.fail)
    /\ pc' = "return"
    /\ UNCHANGED <<db, aws, files, loc, log, status, hist, runs, faults, input>>

NextEmpty == EmptyBucket

SpecEmpty == InitEmpty /\ [][NextEmpty]_vars

(***************************** notify_low_stock on its own ******************)
\* Line 7.
THRESHOLD == 5
\* The records of an event at most.
MaxRecords == 2

TOPIC == <<"arn:aws:sns", "NoStock", "20240101", "abcd1234">>

\* dict.get(key, default)
Get(d, key, default) == IF key \in DOMAIN d THEN d[key] ELSE default
NoDict == <<>>

\* int(val) on a string, given as its characters. Python strips the
\* whitespace around the number, then takes an optional sign and decimal
\* digits (of any script) that single underscores may separate; anything
\* else, and a number of more than 4300 digits, is a ValueError. The
\* characters are those a string of this module can hold: of the whitespace
\* that int() strips the codes 9-13, 32, 133, 160 and 5760, and the decimal
\* digits of the scripts that can be written here.
MaxStrDigits == 4300
DigitChars ==
    << {"0", "۰", "߀", "০", "૦", "௦", "೦", "෦", "໐", "႐", "០", "᧐", "᪀", "᪐", "᮰", "꣐", "꧐", "꧰", "꯰"},
       {"1", "۱", "߁", "১", "૧", "௧", "೧", "෧", "໑", "႑", "១", "᧑", "᪁", "᪑", "᮱", "꣑", "꧑", "꧱", "꯱"},
       {"2", "۲", "߂", "২", "૨", "௨", "೨", "෨", "໒", "႒", "២", "᧒", "᪂", "᪒", "᮲", "꣒", "꧒", "꧲", "꯲"},
       {"3", "۳", "߃", "৩", "૩", "௩", "೩", "෩", "໓", "႓", "៣", "᧓", "᪃", "᪓", "᮳", "꣓", "꧓", "꧳", "꯳"},
       {"4", "۴", "߄", "৪", "૪", "௪", "೪", "෪", "໔", "႔", "៤", "᧔", "᪄", "᪔", "᮴", "꣔", "꧔", "꧴", "꯴"},
       {"5", "۵", "߅", "৫", "૫", "௫", "೫", "෫", "໕", "႕", "៥", "᧕", "᪅", "᪕", "᮵", "꣕", "꧕", "꧵", "꯵"},
       {"6", "۶", "߆", "৬", "૬", "௬", "೬", "෬", "໖", "႖", "៦", "᧖", "᪆", "᪖", "᮶", "꣖", "꧖", "꧶", "꯶"},
       {"7", "۷", "߇", "৭", "૭", "௭", "೭", "෭", "໗", "႗", "៧", "᧗", "᪇", "᪗", "᮷", "꣗", "꧗", "꧷", "꯷"},
       {"8", "۸", "߈", "৮", "૮", "௮", "೮", "෮", "໘", "႘", "៨", "᧘", "᪈", "᪘", "᮸", "꣘", "꧘", "꧸", "꯸"},
       {"9", "۹", "߉", "৯", "૯", "௯", "೯", "෯", "໙", "႙", "៩", "᧙", "᪉", "᪙", "᮹", "꣙", "꧙", "꧹", "꯹"} >>
Whitespace == {" ", "\t", "\n", "\r", "\f", "", "", " ", " "}
IsDigit(c) == \E i \in 1..10 : c \in DigitChars[i]
DigitValue(c) == (CHOOSE i \in 1..10 : c \in DigitChars[i]) - 1
RECURSIVE Magnitude(_, _)
Magnitude(chars, acc) ==
    IF chars = <<>> THEN acc
    ELSE IF Head(chars) = "_" THEN Magnitude(Tail(chars), acc)
    ELSE Magnitude(Tail(chars), 10 * acc + DigitValue(Head(chars)))
RECURSIVE LStrip(_)
LStrip(chars) ==
    IF chars # <<>> /\ Head(chars) \in Whitespace THEN LStrip(Tail(chars)) ELSE chars
RECURSIVE RStrip(_)
RStrip(chars) ==
    IF chars # <<>> /\ chars[Len(chars)] \in Whitespace
    THEN RStrip(SubSeq(chars, 1, Len(chars) - 1)) ELSE chars
Strip(chars) == RStrip(LStrip(chars))
\* The characters after the sign.
Unsigned(chars) == IF chars # <<>> /\ Head(chars) \in {"-", "+"} THEN Tail(chars) ELSE chars
\* int(val) raises ValueError.
int_raises(val) ==
    LET body == Unsigned(Strip(val))
    IN  \/ body = <<>>
        \/ \E i \in 1..Len(body) :
              /\ ~IsDigit(body[i])
              /\ ~(/\ body[i] = "_" /\ 1 < i /\ i < Len(body)
                   /\ IsDigit(body[i - 1]) /\ IsDigit(body[i + 1]))
        \/ Cardinality({i \in 1..Len(body) : IsDigit(body[i])}) > MaxStrDigits
\* The digits from the first one that is not a zero on.
Significant(body) ==
    LET nonzero == {i \in 1..Len(body) : IsDigit(body[i]) /\ DigitValue(body[i]) # 0}
    IN  IF nonzero = {} THEN <<>>
        ELSE SubSeq(body, CHOOSE i \in nonzero : \A j \in nonzero : i <= j, Len(body))
\* The value of int(val), or the exception it raises.
int(val) ==
    LET stripped == Strip(val)
    IN  IF int_raises(val) THEN "ValueError"
        ELSE IF Head(stripped) = "-" THEN 0 - Magnitude(Significant(Unsigned(stripped)), 0)
        ELSE Magnitude(Significant(Unsigned(stripped)), 0)

\* Lines 9-18: 0 for no image, no attribute count, no number in it, an empty
\* string or a string that int() refuses.
get_count(image) ==
    IF image = NoDict THEN 0
    ELSE LET val == Get(Get(image, "count", NoDict), "N", <<>>)
         IN  IF val = <<>> THEN 0
             ELSE IF int_raises(val) THEN 0 ELSE int(val)

\* Mutation: a MODIFY record is notified whatever the old count was.
should_notify_every_modify(event_name, new_count, record) ==
    new_count < THRESHOLD /\ event_name \in {"INSERT", "MODIFY"}

\* Lines 43-63.
should_notify(event_name, new_count, record) ==
    IF new_count < THRESHOLD
    THEN IF event_name = "INSERT" THEN TRUE
         ELSE IF event_name = "MODIFY"
              THEN get_count(Get(record.dynamodb, "OldImage", NoDict)) >= THRESHOLD
         ELSE FALSE
    ELSE FALSE

\* Lines 67-78: the arguments of sns.publish.
publish_call(topic_arn, store_name, item_name, new_count) ==
    Call("publish", [TopicArn |-> topic_arn,
                     Message |-> [Tienda |-> store_name, Producto |-> item_name,
                                  StockActual |-> new_count, UmbralMinimo |-> THRESHOLD],
                     Subject |-> <<"Stock Bajo", item_name, store_name>>])

\* Lines 27-82 for one record: the publish call issued, if any, the line
\* printed and the exception that leaves the handler; fails tells whether
\* sns.publish raises. The event name is read outside the try block (28). An
\* exception inside it (no key dynamodb, a failed publish) is caught and
\* printed with the record's eventID (81-82): without that key the except
\* clause raises KeyError itself.
handle_record(topic_arn, record, fails) ==
    LET caught == IF "eventID" \in DOMAIN record
                  THEN [printed |-> "Error procesando registro", exc |-> "none"]
                  ELSE [printed |-> "none", exc |-> "KeyError"]
    IN  IF "eventName" \notin DOMAIN record
        THEN [log |-> <<>>, printed |-> "none", exc |-> "KeyError"]
        ELSE IF record.eventName \notin {"INSERT", "MODIFY"}
             THEN [log |-> <<>>, printed |-> "none", exc |-> "none"]
        ELSE IF "dynamodb" \notin DOMAIN record
             THEN [log |-> <<>>, printed |-> caught.printed, exc |-> caught.exc]
        ELSE LET new_image == Get(record.dynamodb, "NewImage", NoDict)
                 new_count == get_count(new_image)
                 item_name == Get(Get(new_image, "item", NoDict), "S", <<"Desconocido">>)
                 store_name == Get(Get(new_image, "store", NoDict), "S", <<"Desconocida">>)
                 l == <<publish_call(topic_arn, store_name, item_name, new_count)>>
             IN  IF ~should_notify(record.eventName, new_count, record)
                 THEN [log |-> <<>>, printed |-> "none", exc |-> "none"]
                 ELSE IF fails THEN [log |-> l, printed |-> caught.printed, exc |-> caught.exc]
                 ELSE [log |-> l, printed |-> "Correo enviado", exc |-> "none"]

\* Lines 20-84: fails is the set of the positions of the records whose
\* publish call raises. The result is the publish calls issued, the line
\* printed for each record handled, the value returned and the exception
\* that leaves the handler: the loop ends at the first record that raises.
lambda_handler(topic_arn, event, fails) ==
    IF "Records" \notin DOMAIN event
    THEN [log |-> <<>>, printed |-> <<>>, ret |-> None, exc |-> "KeyError"]
    ELSE IF topic_arn = None \/ topic_arn = <<>>
    THEN [log |-> <<>>, printed |-> <<>>, ret |-> None, exc |-> "none"]
    ELSE LET hs == [i \in 1..Len(event.Records) |->
                       handle_record(topic_arn, event.Records[i], i \in fails)]
             raising == {i \in 1..Len(hs) : hs[i].exc # "none"}
             last == IF raising = {} THEN Len(hs)
                     ELSE CHOOSE i \in raising : \A j \in raising : i <= j
         IN  [log |-> Flatten([i \in 1..last |-> hs[i].log]),
              printed |-> [i \in 1..last |-> hs[i].printed],
              ret |-> IF raising = {} THEN <<"status", "ok">> ELSE None,
              exc |-> IF raising = {} THEN "none" ELSE hs[last].exc]

\* The stream records of the table (view NEW_AND_OLD_IMAGES): the loader
\* writes store, item and an integer count; an item written by other means
\* may lack the count.
Image(n) == [store |-> [S |-> <<"Madrid">>], item |-> [S |-> <<"tea">>], count |-> [N |-> n]]
ImageWithoutCount == [store |-> [S |-> <<"Madrid">>], item |-> [S |-> <<"tea">>]]
NewImages == {Image(n) : n \in {<<"4">>, <<"5">>, <<"-", "1">>}}
OldImages == {Image(n) : n \in {<<"4">>, <<"5">>, <<"1", "0">>}}
StreamRecords ==
    {[eventID |-> <<"e">>, eventName |-> "INSERT", dynamodb |-> [NewImage |-> new]] :
        new \in NewImages \cup {ImageWithoutCount}}
    \cup {[eventID |-> <<"e">>, eventName |-> "MODIFY",
           dynamodb |-> [NewImage |-> new, OldImage |-> old]] :
            new \in NewImages, old \in OldImages}
    \cup {[eventID |-> <<"e">>, eventName |-> "REMOVE", dynamodb |-> [OldImage |-> old]] :
            old \in {Image(<<"4">>)}}

\* The positions of the records of rs for which sns.publish is called.
Publishing(rs) ==
    {i \in 1..Len(rs) : handle_record(TOPIC, rs[i], FALSE).log # <<>>}

NotifyInputs ==
    UNION {{[fn |-> "lambda_handler", TOPIC_ARN |-> TOPIC, event |-> [Records |-> rs],
             fails |-> fs] : fs \in SUBSET Publishing(rs)}
           \cup {[fn |-> "lambda_handler", TOPIC_ARN |-> None, event |-> [Records |-> rs],
                  fails |-> {}]} :
             rs \in {<<>>} \cup SeqsUpTo(StreamRecords, MaxRecords)}

InitNotify ==
    /\ db = EmptyDb /\ aws = EmptyAws /\ files = [index |-> FALSE, data |-> FALSE]
    /\ loc = NoLoc /\ pc = "call" /\ log = <<>>
    /\ status = [run |-> "none", end |-> "none", at |-> "none", exc |-> "none"]
    /\ hist = [aws0 |-> EmptyAws, clean |-> FALSE, created |-> {},
               applies |-> 0, aborted |-> FALSE, gone |-> FALSE, table0 |-> EmptyAws.table,
               afterAbort |-> FALSE, quiet |-> FALSE]
    /\ runs = 0 /\ faults = 0
    /\ input \in NotifyInputs
    /\ output = None

LambdaHandler ==
    /\ pc = "call" /\ input.fn = "lambda_handler"
    /\ output' = lambda_handler(input.TOPIC_ARN, input.event, input.fails)
    /\ pc' = "return"
    /\ UNCHANGED <<db, aws, files, loc, log, status, hist, runs, faults, input>>

NextNotify == LambdaHandler

SpecNotify == InitNotify /\ [][NextNotify]_vars

ApplyRun == status.run = "apply"
DestroyRun == status.run = "destroy"
Ended == pc = "idle" /\ status.run # "none"
LogOps == {log[i].op : i \in 1..Len(log)}
\* The run is between two of its steps (nothing out-of-band happens then).
Running == pc # "idle"

\* C1: during an apply run the identifier of each provisioned resource (table
\* ARN, gateway endpoint, topic ARN, web URL) is in the shelve file as soon as
\* the step that produced it has completed, so whenever the run aborts the
\* file holds the identifier of every completed resource.
C1_IdentifierStoredAfterItsStep ==
    ApplyRun =>
        /\ loc.table_arn # None => DbGet(db, "table-arn") = loc.table_arn
        /\ loc.api_url # None => DbGet(db, "api-url") = loc.api_url
        /\ loc.sns_topic_arn # None => DbGet(db, "sns-arn") = loc.sns_topic_arn
        /\ loc.web_url # None => DbGet(db, "web-url") = loc.web_url

\* C2: in a destroy run the shelve file is cleared only at the end of a
\* successful teardown: while a deletion is pending or has failed the file
\* still holds the identifiers read at the start.
C2_RecordKeptUntilTeardownEnds ==
    (DestroyRun /\ status.end # "done") =>
        /\ DbGet(db, "uploads-bucket") = loc.uploads_bucket
        /\ DbGet(db, "web-bucket") = loc.web_bucket
        /\ DbGet(db, "api-url") = loc.api_url
        /\ DbGet(db, "sns-arn") = loc.sns_arn

\* C3: the suffix is generated only when the file holds none: no step of an
\* apply run, completed or aborted, changes or removes a suffix that the file
\* holds, so every apply run on a record leaves the suffix of the first one.
C3_SuffixNeverRegenerated ==
    [][("suffix" \in DOMAIN db /\ status'.run = "apply")
        => ("suffix" \in DOMAIN db' /\ db'["suffix"] = db["suffix"])]_vars

C3_Witness ==
    /\ ApplyRun /\ Ended
    /\ hist.applies >= 2
    /\ "suffix" \in DOMAIN db /\ loc.suffix = db["suffix"]

\* C4: in every apply run the bucket names are inventory-uploads-<suffix> and
\* inventory-web-<suffix> and the topic name NoStock-<suffix> for the suffix
\* of the file, and every bucket or topic create call of the runs that share
\* the record targets one of these three names.
C4_NamesFollowTheSuffix ==
    (ApplyRun /\ "suffix" \in DOMAIN db) =>
        LET names == {<<"inventory-uploads">> \o db["suffix"],
                      <<"inventory-web">> \o db["suffix"],
                      <<"NoStock">> \o db["suffix"]}
        IN  /\ loc.uploads_bucket = <<"inventory-uploads">> \o db["suffix"]
            /\ loc.web_bucket = <<"inventory-web">> \o db["suffix"]
            /\ loc.sns_topic_name = <<"NoStock">> \o db["suffix"]
            /\ DbGet(db, "uploads-bucket") = loc.uploads_bucket
            /\ DbGet(db, "web-bucket") = loc.web_bucket
            /\ hist.created \subseteq names
            /\ created_names(log) \subseteq names

C4_Witness ==
    /\ ApplyRun /\ hist.applies >= 2
    /\ "create_bucket" \in LogOps /\ "create_topic" \in LogOps
    /\ Cardinality(hist.created) = 3

\* C5: an apply run that completes after earlier runs on the same record
\* aborted (at whatever step) leaves the shelve file with the content that a
\* single uninterrupted run from the same beginning leaves.
C5_ResumedEqualsUninterrupted ==
    (ApplyRun /\ status.end = "done" /\ hist.clean) =>
        \A u \in {run_from(1, [db |-> EmptyDb, loc |-> NoLoc, aws |-> hist.aws0,
                                 exc |-> "none"], db["suffix"], files)} :
            u.exc = "none" /\ u.db = db

C5_Witness ==
    /\ ApplyRun /\ status.end = "done" /\ hist.clean
    /\ hist.applies >= 2
    /\ hist.aborted
    /\ "get_apis" \in LogOps /\ "create_api" \notin LogOps
    /\ DbGet(db, "api-url") # None /\ DbGet(db, "web-url") # None

\* C6: each reconcile operation, called twice in succession with the same
\* arguments and no remote change in between, returns the same identifier
\* both times.
Twice(r1, r2) == (r1.exc = "none" /\ r2.exc = "none") => r1.ret = r2.ret

C6_ReconcileTwiceSameIdentifier ==
    /\ \A r1 \in {ensure_inventory_table(aws, TABLE_NAME, {})} :
          Twice(r1, ensure_inventory_table(r1.aws, TABLE_NAME, {}))
    /\ \A fn \in FuncNames : \A r1 \in {ensure_lambda_generic(aws, fn, {})} :
          Twice(r1, ensure_lambda_generic(r1.aws, fn, {}))
    /\ \A fn \in FuncNames : \A r1 \in {ensure_http_api(aws, API_NAME, function_arn_of(fn), {})} :
          Twice(r1, ensure_http_api(r1.aws, API_NAME, function_arn_of(fn), {}))
    /\ \A s \in Suffixes : \A r1 \in {ensure_sns_topic(aws, sns_topic_name(s), {})} :
          Twice(r1, ensure_sns_topic(r1.aws, sns_topic_name(s), {}))

\* The gateway step is about to run on an account without the gateway: the
\* first call creates it, the second finds it.
C6_Witness ==
    /\ pc = "ensure_http_api" /\ aws.apis = {}
    /\ \E r1 \in {ensure_http_api(aws, API_NAME, loc.api_lambda_arn, {})} :
       \E r2 \in {ensure_http_api(r1.aws, API_NAME, loc.api_lambda_arn, {})} :
          /\ r1.exc = "none" /\ r2.exc = "none"
          /\ r1.aws.apis # {} /\ r2.aws.apis = r1.aws.apis
          /\ r1.ret = r2.ret

\* C7: a destroy run started with an empty shelve file issues no provider
\* call at all.
C7_EmptyRecordNoProviderCall ==
    (DestroyRun /\ loc.uploads_bucket = None /\ loc.web_bucket = None
        /\ loc.api_url = None /\ loc.sns_arn = None) => log = <<>>

\* C8: a destroy run on a record whose resources were all removed by hand
\* (every delete or list call is answered not-found) raises nothing, runs
\* every teardown step and leaves the shelve file empty.
C8_AbsentResourcesTeardownCompletes ==
    (DestroyRun /\ hist.gone /\ loc.uploads_bucket # None) =>
        /\ status.end # "aborted"
        /\ db = EmptyDb
        /\ NoResources(aws)
        /\ Ended => (status.end = "done" /\ status.at = TeardownSteps[Len(TeardownSteps)])

C8_Witness ==
    /\ DestroyRun /\ hist.gone /\ Ended /\ status.end = "done"
    /\ loc.uploads_bucket # None /\ loc.api_url # None /\ loc.sns_arn # None
    /\ {"delete_api", "list_event_source_mappings", "delete_function", "delete_table",
        "delete_topic", "get_bucket_location"} \subseteq LogOps
    /\ db = EmptyDb

\* C9: in a destroy run no failure of one deletion keeps the later deletions
\* from being attempted: every destroy run attempts every step up to the
\* last one (the web bucket).
C9_EveryDeletionAttempted ==
    (DestroyRun /\ Ended) => status.at = TeardownSteps[Len(TeardownSteps)]

\* The kind a call of a destroy run belongs to.
IsTriggerCall(c) == c.op \in {"list_event_source_mappings", "delete_event_source_mapping"}
IsBucketCall(c) == c.op \in {"get_bucket_location", "list_object_versions", "delete_objects",
                             "list_objects_v2", "delete_bucket"}
FuncRank(c) == CASE c.arg[1] = LOADER_FUNC_NAME[1] -> 0
                 [] c.arg[1] = API_FUNC_NAME[1] -> 1
                 [] c.arg[1] = NOTIFY_FUNC_NAME[1] -> 2

\* gateway, then all triggers, then all functions, then table, topic, buckets
KindRank(c) ==
    CASE c.op = "delete_api" -> 0
      [] IsTriggerCall(c) -> 1
      [] c.op = "delete_function" -> 2
      [] c.op \in {"delete_table", "wait_table_not_exists"} -> 3
      [] c.op = "delete_topic" -> 4
      [] IsBucketCall(c) -> 5

\* gateway, then function by function its triggers and the function itself,
\* then table, topic, the uploads bucket and the web bucket
StepRank(c) ==
    CASE c.op = "delete_api" -> 0
      [] IsTriggerCall(c) -> 1 + 2 * FuncRank(c)
      [] c.op = "delete_function" -> 2 + 2 * FuncRank(c)
      [] c.op \in {"delete_table", "wait_table_not_exists"} -> 7
      [] c.op = "delete_topic" -> 8
      [] IsBucketCall(c) -> IF c.arg[1] = "inventory-uploads" THEN 9 ELSE 10

\* C10 as stated: the calls of a destroy run come gateway first, then all
\* trigger removals, then all function deletions, then the table, the topic
\* and the buckets: no function is deleted before every function's triggers
\* have been removed.
C10_AllTriggersBeforeAnyFunction ==
    DestroyRun => \A i, j \in 1..Len(log) : i < j => KindRank(log[i]) <= KindRank(log[j])

\* C10 as amended: the calls of a destroy run come gateway first, then for
\* each function in turn (loader, API, notification) the removal of its
\* triggers followed by its deletion, then the table, then the topic, then
\* the uploads bucket and the web bucket.
C10_TriggersBeforeTheirFunction ==
    DestroyRun =>
        /\ \A i, j \in 1..Len(log) : i < j => StepRank(log[i]) <= StepRank(log[j])
        /\ \A j \in 1..Len(log) : log[j].op = "delete_function" =>
              \E i \in 1..(j - 1) : /\ log[i].op = "list_event_source_mappings"
                                    /\ log[i].arg = log[j].arg

C10_Witness ==
    /\ DestroyRun /\ Ended /\ status.end = "done"
    /\ {"delete_api", "delete_event_source_mapping", "delete_function", "delete_table",
        "delete_topic", "delete_bucket"} \subseteq LogOps
    /\ Cardinality({i \in 1..Len(log) : log[i].op = "delete_function"}) = 3
    /\ Cardinality({i \in 1..Len(log) : log[i].op = "delete_bucket"}) = 2

\* The positions in the call list of the run of the calls of an operation.
Pos(op) == {i \in 1..Len(log) : log[i].op = op}
PosArg(op, arg) == {i \in 1..Len(log) : log[i].op = op /\ log[i].arg = arg}
\* Every call of C comes after some call of P.
Precede(P, C) == \A j \in C : \E i \in P : i < j
GatewayCalls == Pos("get_apis") \cup Pos("create_api") \cup Pos("create_integration")
                    \cup Pos("create_route") \cup Pos("create_stage")
BucketTriggerCalls == Pos("put_bucket_notification_configuration")
                          \cup {i \in Pos("add_permission") : log[i].arg[2] = "S3Invoke"}
SiteCalls == Pos("put_public_access_block") \cup Pos("put_bucket_policy")
                 \cup Pos("put_object") \cup Pos("put_bucket_website")

\* C11: in an apply run a step is issued only after the steps that produce
\* its inputs have completed: the role is resolved before any function is
\* created, the API function is ensured before the gateway, the topic before
\* the notification function, the loader function and the uploads bucket
\* before the bucket trigger, the notification function and the table before
\* the stream trigger, and the gateway endpoint before the site is published.
C11_ProducersBeforeConsumers ==
    ApplyRun =>
        /\ Pos("create_function") # {} =>
              /\ Precede(PosArg("get_caller_identity", ROLE_NAME), Pos("create_function"))
              /\ loc.role = role_arn_of(ROLE_NAME)
        /\ GatewayCalls # {} =>
              /\ Precede(PosArg("create_function", API_FUNC_NAME), GatewayCalls)
              /\ loc.api_lambda_arn = function_arn_of(API_FUNC_NAME)
              /\ Running => API_FUNC_NAME \in aws.funcs
        /\ PosArg("create_function", NOTIFY_FUNC_NAME) # {} =>
              /\ Precede(Pos("create_topic"), PosArg("create_function", NOTIFY_FUNC_NAME))
              /\ loc.sns_topic_arn = topic_arn_of(loc.sns_topic_name)
        /\ BucketTriggerCalls # {} =>
              /\ Precede(PosArg("create_function", LOADER_FUNC_NAME), BucketTriggerCalls)
              /\ Precede(PosArg("head_bucket", loc.uploads_bucket), BucketTriggerCalls)
              /\ loc.loader_arn = function_arn_of(LOADER_FUNC_NAME)
              /\ Running => (LOADER_FUNC_NAME \in aws.funcs /\ loc.uploads_bucket \in aws.buckets)
        /\ Pos("create_event_source_mapping") # {} =>
              /\ Precede(PosArg("create_function", NOTIFY_FUNC_NAME),
                         Pos("create_event_source_mapping"))
              /\ Precede(Pos("create_table"), Pos("create_event_source_mapping"))
              /\ loc.notify_arn = function_arn_of(NOTIFY_FUNC_NAME)
              /\ loc.table_arn = table_arn_of(TABLE_NAME)
              /\ Running => (NOTIFY_FUNC_NAME \in aws.funcs /\ aws.table.exists)
        /\ SiteCalls # {} =>
              /\ Precede(Pos("create_stage"), SiteCalls)
              /\ loc.api_url # None
              /\ Running => api_id_of_url(loc.api_url) \in aws.stages

C11_Witness ==
    /\ ApplyRun /\ status.end = "done"
    /\ {"create_function", "create_api", "create_topic", "create_event_source_mapping",
        "put_bucket_notification_configuration", "put_bucket_website"} \subseteq LogOps

\* C12: an apply run on a record that holds the table identifier of a
\* completed run, started when the table is gone (deleted by hand), and whose
\* table step returns: the step issued create_table, waited for the table and
\* described it, in that order; the table exists again as a new table; the
\* identifier the run uses and stores is the one describe_table gave for it,
\* and the stream it connects is the stream of the new table.
C12_DeletedTableIsRecreated ==
    (ApplyRun /\ DbGet(db, "table-arn") # None /\ ~hist.table0.exists
        /\ loc.table_arn # None) =>
        /\ Cardinality(Pos("create_table")) = 1
        /\ Cardinality(Pos("wait_table_exists")) = 1
        /\ Precede(Pos("create_table"), Pos("wait_table_exists"))
        /\ Precede(Pos("wait_table_exists"), Pos("describe_table"))
        /\ Pos("describe_table") # {}
        /\ loc.table_arn = table_arn_of(TABLE_NAME)
        /\ Running => (aws.table.exists /\ aws.table.gen = hist.table0.gen + 1)
        /\ \A i \in Pos("create_event_source_mapping") :
              log[i].arg = NOTIFY_FUNC_NAME \o stream_arn_of(TABLE_NAME, hist.table0.gen + 1)
        /\ status.end = "done" => DbGet(db, "table-arn") = loc.table_arn

\* The second run completed after only the table had been deleted by hand.
C12_Witness ==
    /\ ApplyRun /\ status.end = "done" /\ hist.applies >= 2
    /\ ~hist.table0.exists /\ hist.table0.gen = 1
    /\ "create_bucket" \notin LogOps
    /\ "wait_table_exists" \in LogOps /\ "create_event_source_mapping" \in LogOps
    /\ DbGet(db, "table-arn") = table_arn_of(TABLE_NAME)

\* The resource kind whose handle a key of the shelve file holds.
KindOfKey(k) ==
    CASE k \in {"uploads-bucket", "web-bucket"} -> "Storage"
      [] k = "table-arn" -> "Table"
      [] k = "api-url" -> "Gateway"
      [] k = "sns-arn" -> "Topic"
      [] OTHER -> "none"    \* suffix, web-url
ResourceKinds == {"Storage", "Table", "Function", "Gateway", "Topic", "Trigger"}
HandlesOf(kind) == {k \in DOMAIN db : KindOfKey(k) = kind /\ db[k] # None}

\* C13: when the first apply run on a record has completed, the shelve file
\* holds exactly one handle for each resource kind (Storage, Table, Function,
\* Gateway, Topic, Trigger), and a later apply run works with the suffix the
\* file holds.
C13_OneHandlePerKind ==
    /\ (ApplyRun /\ status.end = "done" /\ hist.applies = 1) =>
          \A kind \in ResourceKinds : Cardinality(HandlesOf(kind)) = 1
    /\ (ApplyRun /\ hist.applies >= 2) => loc.suffix = DbGet(db, "suffix")

\* The provider calls that delete something.
DeleteOps == {"delete_api", "delete_event_source_mapping", "delete_function", "delete_table",
              "delete_topic", "delete_objects", "delete_bucket"}
\* Whatever exists remotely in a exists in b.
Kept(a, b) ==
    /\ a.buckets \subseteq b.buckets /\ a.objects \subseteq b.objects
    /\ a.notif \subseteq b.notif /\ a.bpaOff \subseteq b.bpaOff /\ a.sites \subseteq b.sites
    /\ a.table.exists => (b.table.exists /\ b.table.gen = a.table.gen
                            /\ b.table.stream = a.table.stream)
    /\ a.funcs \subseteq b.funcs /\ a.perms \subseteq b.perms
    /\ a.apis \subseteq b.apis /\ a.integs \subseteq b.integs
    /\ a.routes \subseteq b.routes /\ a.stages \subseteq b.stages
    /\ a.topics \subseteq b.topics /\ a.subs \subseteq b.subs
    /\ a.maps \subseteq b.maps
\* The step taken is a step of an apply run.
IsApplyStep == status'.run = "apply" /\ (pc # "idle" \/ pc' # "idle")

\* C14: no step of an apply run, returning or raising, issues a delete call
\* or removes anything that exists remotely, and it leaves the suffix and the
\* bucket names that the shelve file holds as they are.
C14_ApplyDeletesNothing ==
    [][IsApplyStep =>
          /\ {log'[i].op : i \in 1..Len(log')} \cap DeleteOps = {}
          /\ Kept(aws, aws')
          /\ \A k \in DOMAIN db \cap {"suffix", "uploads-bucket", "web-bucket"} :
                k \in DOMAIN db' /\ db'[k] = db[k]]_vars

\* A run aborted at the site step: what the earlier steps created is there.
C14_Witness ==
    /\ ApplyRun /\ status.end = "aborted" /\ status.at = "deploy_static_site"
    /\ Cardinality(aws.buckets) = 2 /\ aws.table.exists /\ aws.funcs = FuncNames
    /\ aws.apis # {} /\ aws.topics # {} /\ aws.maps # {} /\ aws.notif # {}
    /\ DbGet(db, "suffix") = loc.suffix /\ DbGet(db, "uploads-bucket") = loc.uploads_bucket

\* The function a function step ensures.
StepFunction(step) == CASE step = "loader" -> LOADER_FUNC_NAME
                        [] step = "api_lambda" -> API_FUNC_NAME
                        [] step = "notify" -> NOTIFY_FUNC_NAME
\* What the step about to run asks to create exists already: its create call
\* will be answered with a conflict.
TableConflict == pc = "ensure_inventory_table" /\ aws.table.exists
FunctionConflict == pc \in {"loader", "api_lambda", "notify"} /\ StepFunction(pc) \in aws.funcs
GatewayConflict ==
    /\ pc = "ensure_http_api" /\ apis_named(aws, API_NAME) # {}
    /\ \/ <<API_FUNC_NAME, <<"ApiGatewayInvoke", first_api(aws, API_NAME)>>>> \in aws.perms
       \/ \E x \in aws.routes : x.api = first_api(aws, API_NAME)
       \/ first_api(aws, API_NAME) \in aws.stages
PermissionConflict ==
    /\ pc = "configure_s3_lambda_trigger"
    /\ <<LOADER_FUNC_NAME, <<"S3Invoke">> \o loc.uploads_bucket>> \in aws.perms
MappingConflict ==
    /\ pc = "connect_stream"
    /\ \E m \in aws.maps : m.fn = NOTIFY_FUNC_NAME
                           /\ m.stream = stream_arn_of(TABLE_NAME, aws.table.gen)
\* The calls the step taken has issued.
NewOps == {log'[i].op : i \in (Len(log) + 1)..Len(log')}

\* A step whose create calls meet a conflict, and no other failure, returns:
\* the function steps after the code and configuration updates, the others
\* with what existed left as it was.
ConflictRecovered ==
    (IsApplyStep /\ faults' = faults
        /\ (TableConflict \/ FunctionConflict \/ GatewayConflict
              \/ PermissionConflict \/ MappingConflict)) =>
        /\ status'.end # "aborted" /\ pc' = NextStep(ApplySteps, pc)
        /\ TableConflict => ("create_table" \in NewOps /\ aws'.table = aws.table)
        /\ FunctionConflict =>
              /\ {"create_function", "update_function_code", "wait_function_updated",
                  "update_function_configuration"} \subseteq NewOps
              /\ aws'.funcs = aws.funcs
        /\ GatewayConflict =>
              /\ {"add_permission", "create_route", "create_stage"} \subseteq NewOps
              /\ aws'.apis = aws.apis
        /\ PermissionConflict => ("add_permission" \in NewOps /\ aws'.perms = aws.perms)
        /\ MappingConflict => ("create_event_source_mapping" \in NewOps /\ aws'.maps = aws.maps)

\* C15: no already-exists conflict answered to a create call of an apply run
\* (bucket, table, function, invoke permission, route, stage, event-source
\* mapping) aborts the run: the step recovers and the run goes on to the next
\* step.
C15_ConflictNeverAborts ==
    [][/\ ConflictRecovered
       /\ IsApplyStep => status'.exc # "BucketAlreadyExists"]_vars

\* The conflicts other than the bucket's are recovered.
C15_CaughtConflictsRecovered == [][ConflictRecovered]_vars

\* In the call list l every configuration update comes right after the wait
\* for the code update of the same function, which comes right after that
\* code update.
ConfigurationAfterWait(l) ==
    \A j \in 1..Len(l) : l[j].op = "update_function_configuration" =>
        /\ j >= 3
        /\ l[j - 1] = Call("wait_function_updated", l[j].arg)
        /\ l[j - 2] = Call("update_function_code", l[j].arg)
LambdaFaults == {"get_caller_identity", "create_function", "update_function_code",
                 "function_updated", "update_function_configuration"}

\* C16: when ensure_lambda_generic finds the function existing, the
\* configuration update is issued only after the code update was issued and
\* the waiter function_updated returned; it is not issued when the code
\* update or the waiter raises. This holds for the calls of every apply run
\* and, at every function step, for every way the provider can answer.
C16_ConfigurationAfterCodeUpdate ==
    /\ ApplyRun => ConfigurationAfterWait(log)
    /\ pc \in {"loader", "api_lambda", "notify"} =>
          \A F \in SUBSET LambdaFaults :
          \A r \in {ensure_lambda_generic(aws, StepFunction(pc), F)} :
             /\ ConfigurationAfterWait(r.log)
             /\ (F \cap {"update_function_code", "function_updated"} # {}
                   \/ StepFunction(pc) \notin aws.funcs) =>
                   \A i \in 1..Len(r.log) : r.log[i].op # "update_function_configuration"
             /\ (F \cap {"update_function_code", "function_updated"} # {}
                   /\ F \cap {"get_caller_identity", "create_function"} = {}
                   /\ StepFunction(pc) \in aws.funcs) =>
                   /\ r.exc # "none"
                   /\ r.log[Len(r.log)].op \in {"update_function_code", "wait_function_updated"}
             /\ (F = {} /\ StepFunction(pc) \in aws.funcs) =>
                   /\ r.exc = "none"
                   /\ r.log[Len(r.log)] = Call("update_function_configuration", StepFunction(pc))

\* A run that took the update path for the three functions.
C16_Witness ==
    /\ ApplyRun /\ status.end = "done"
    /\ Cardinality(Pos("update_function_configuration")) = 3
    /\ Cardinality(Pos("wait_function_updated")) = 3

\* The stream of the table is connected to the notification function.
StreamConnected(a) ==
    \E m \in a.maps : m.fn = NOTIFY_FUNC_NAME /\ m.stream = stream_arn_of(TABLE_NAME, a.table.gen)

\* C17 as stated: whenever an apply run uploads the initial data, the run has
\* set the notification configuration of the uploads bucket and the mapping
\* from the table stream to the notification function exists.
C17_SeedingAfterWiring ==
    [][(IsApplyStep /\ "upload_file" \in NewOps) =>
          /\ Pos("put_bucket_notification_configuration") # {}
          /\ loc.uploads_bucket \in aws.notif
          /\ StreamConnected(aws)]_vars

\* C17 as amended: whenever an apply run uploads the initial data, the run
\* has set the notification configuration of the uploads bucket and has
\* described the table; the mapping from the table stream to the notification
\* function exists when the table has a stream, and when it has none the run
\* has asked for no mapping.
C17_SeedingAfterBucketWiring ==
    [][(IsApplyStep /\ "upload_file" \in NewOps) =>
          /\ Pos("put_bucket_notification_configuration") # {}
          /\ loc.uploads_bucket \in aws.notif
          /\ \E i \in Pos("put_bucket_notification_configuration") :
                \E j \in PosArg("describe_table", TABLE_NAME) : i < j
          /\ aws.table.stream => StreamConnected(aws)
          /\ ~aws.table.stream => (Pos("create_event_source_mapping") = {} /\ ~StreamConnected(aws))]_vars

\* The data was uploaded in a run that found a table without a stream.
C17_Witness ==
    /\ ApplyRun /\ pc = "save_results"
    /\ "upload_file" \in LogOps /\ "put_bucket_notification_configuration" \in LogOps
    /\ aws.table.exists /\ ~aws.table.stream
    /\ "create_event_source_mapping" \notin LogOps

\* C18: a destroy run that follows an aborted apply run, at whatever step it
\* aborted, and in which every call succeeds, leaves nothing of what the
\* deployment created: on an account that held nothing when the deployment
\* began no bucket, object, table, function, gateway, topic or event-source
\* mapping remains.
C18_DestroyAfterAbortLeavesNothing ==
    (DestroyRun /\ status.end = "done" /\ hist.afterAbort /\ hist.quiet
        /\ NoResources(hist.aws0)) => NoResources(aws)

\* C19: after one or more completed apply runs of a deployment that began
\* without a gateway, with no aborted run and nothing changed by hand, there
\* is exactly one gateway, it has exactly one integration, its two routes
\* target that integration and it has its stage: a repeated run has added no
\* gateway, integration, route or stage.
C19_OneGatewayOneIntegration ==
    (ApplyRun /\ status.end = "done" /\ hist.clean /\ ~hist.aborted
        /\ hist.aws0.apis = {}) =>
        /\ Cardinality(aws.apis) = 1
        /\ Cardinality(aws.integs) = 1
        /\ Cardinality(aws.routes) = 2
        /\ \A x \in aws.routes : \A y \in aws.integs :
              x.api \in aws.apis /\ y.api = x.api /\ x.target = y.no
        /\ aws.stages = aws.apis

\* The subscription requests the topic of the run has received.
Requests == {x \in aws.subs : x.topic = loc.sns_topic_name}

\* C20: an apply run issues no subscription request before its topic step has
\* returned and exactly one once it has, for the configured address on the
\* topic of the run, right after create_topic and whatever subscriptions
\* exist; so after n runs of a deployment, all completed and nothing changed
\* by hand, the topic has received n requests.
C20_OneSubscribePerRun ==
    ApplyRun =>
        /\ (loc.sns_topic_arn = None \/ pc = "subscribe_email") => Pos("subscribe") = {}
        /\ (loc.sns_topic_arn # None /\ pc # "subscribe_email") =>
              /\ Cardinality(Pos("subscribe")) = 1
              /\ \A j \in Pos("subscribe") :
                    /\ log[j].arg = topic_arn_of(loc.sns_topic_name) \o EMAIL_NOTIFY
                    /\ log[j - 1] = Call("create_topic", loc.sns_topic_name)
        /\ (status.end = "done" /\ hist.clean /\ ~hist.aborted
              /\ loc.sns_topic_name \notin hist.aws0.topics) =>
              Cardinality(Requests) = hist.applies

\* The second completed run subscribed again.
C20_Witness ==
    /\ ApplyRun /\ status.end = "done" /\ hist.clean /\ ~hist.aborted
    /\ hist.applies = 2
    /\ Cardinality(Pos("subscribe")) = 1
    /\ Cardinality(Requests) = 2

\* C21: the table step of an apply run that finds the table existing issues
\* create_table (answered with the conflict) and describe_table and nothing
\* else, leaves the table as it is and, unless a call fails, binds the ARN of
\* that table; the stream step of a run whose table has no stream describes
\* the table, asks for no mapping, changes nothing and, unless the call
\* fails, the run goes on to the next step.
C21_ExistingTableLeftAlone ==
    [][/\ (IsApplyStep /\ pc = "ensure_inventory_table" /\ aws.table.exists) =>
             /\ aws' = aws
             /\ NewOps \subseteq {"create_table", "describe_table"}
             /\ "create_table" \in NewOps
             /\ faults' = faults =>
                   /\ loc'.table_arn = table_arn_of(TABLE_NAME)
                   /\ pc' = NextStep(ApplySteps, pc)
       /\ (IsApplyStep /\ pc = "connect_stream" /\ ~aws.table.stream) =>
             /\ aws' = aws
             /\ NewOps = {"describe_table"}
             /\ faults' = faults =>
                   (status'.end = "running" /\ pc' = NextStep(ApplySteps, pc))]_vars

\* A run went past the stream step on a table made by hand without a stream.
C21_Witness ==
    /\ ApplyRun /\ pc = "deploy_static_site"
    /\ aws.table.exists /\ ~aws.table.stream /\ hist.table0 = aws.table
    /\ "create_table" \in LogOps /\ "wait_table_exists" \notin LogOps
    /\ "create_event_source_mapping" \notin LogOps
    /\ loc.table_arn = table_arn_of(TABLE_NAME)

\* The bucket a bucket step ensures.
StepBucket == IF pc = "ensure_bucket_uploads" THEN loc.uploads_bucket ELSE loc.web_bucket
IsBucketStep == IsApplyStep /\ pc \in {"ensure_bucket_uploads", "ensure_bucket_web"}

\* A bucket step asks once whether the bucket exists, and a bucket of the
\* record that is gone is created again unless a call fails.
BucketCheckedAndRecreated ==
    IsBucketStep =>
        /\ Cardinality({i \in (Len(log) + 1)..Len(log') :
                          log'[i] = Call("head_bucket", StepBucket)}) = 1
        /\ (StepBucket \notin aws.buckets /\ faults' = faults) =>
              /\ "create_bucket" \in NewOps
              /\ StepBucket \in aws'.buckets
              /\ pc' = NextStep(ApplySteps, pc)

\* C22: a bucket step of an apply run asks the provider whether the bucket
\* exists and issues create_bucket exactly when the bucket does not exist,
\* whatever the shelve file holds: a bucket of the record that was deleted by
\* hand is created again, and a bucket that exists receives no create call.
C22_CreateExactlyWhenAbsent ==
    [][/\ BucketCheckedAndRecreated
       /\ IsBucketStep => ("create_bucket" \in NewOps <=> StepBucket \notin aws.buckets)]_vars

\* The part of C22 that does not depend on the answer of head_bucket.
C22_AbsentBucketRecreated == [][BucketCheckedAndRecreated]_vars

DestroyCompleted == DestroyRun /\ Ended /\ status.end = "done"

\* C23: a destroy run that completed leaves the shelve file without suffix and
\* without identifiers, and the apply run that follows it starts a new
\* deployment: it stores a suffix that unique_suffix() generates, its bucket
\* and topic names are those of this suffix, and it holds no identifier of
\* the deployment that was destroyed.
C23_DestroyedRecordStartsAnew ==
    [][/\ (status'.run = "destroy" /\ status'.end = "done") => db' = EmptyDb
       /\ (DestroyCompleted /\ status'.run = "apply") =>
             /\ db = EmptyDb
             /\ hist'.applies = 1
             /\ DOMAIN db' = {"suffix", "uploads-bucket", "web-bucket"}
             /\ db'["suffix"] \in Suffixes
             /\ loc'.suffix = db'["suffix"]
             /\ loc'.uploads_bucket = uploads_bucket_name(db'["suffix"])
             /\ loc'.web_bucket = web_bucket_name(db'["suffix"])
             /\ loc'.sns_topic_name = sns_topic_name(db'["suffix"])
             /\ db'["uploads-bucket"] = loc'.uploads_bucket
             /\ db'["web-bucket"] = loc'.web_bucket
             /\ [loc' EXCEPT !.suffix = None, !.uploads_bucket = None, !.web_bucket = None,
                             !.sns_topic_name = None] = NoLoc]_vars

\* The deployment that follows a destroy run has another suffix than the
\* bucket the destroy run failed to delete.
C23_Witness ==
    /\ ApplyRun /\ hist.applies = 1 /\ runs = 3
    /\ "suffix" \in DOMAIN db
    /\ loc.uploads_bucket = uploads_bucket_name(db["suffix"])
    /\ \E s \in Suffixes \ {db["suffix"]} : uploads_bucket_name(s) \in aws.buckets

\* What the two listings of a bucket hold, as references, in listing order:
\* per page the versions, then the delete markers; then the plain objects.
ListedVersions(vc) ==
    Flatten([p \in 1..Len(vc) |->
                [i \in 1..vc[p][1] |-> [Key |-> <<"v", p, i>>, VersionId |-> <<"id", p, i>>]]
                \o [i \in 1..vc[p][2] |-> [Key |-> <<"m", p, i>>,
                                           VersionId |-> <<"id", p, vc[p][1] + i>>]]])
ListedObjects(oc) ==
    Flatten([p \in 1..Len(oc) |-> [i \in 1..oc[p] |-> [Key |-> <<"o", p, i>>]]])

IsDeleteCall(c) == c.op = "delete_objects"
\* The references of the delete_objects calls of l, call after call.
Submitted(l) ==
    LET dels == SelectSeq(l, IsDeleteCall)
    IN  Flatten([i \in 1..Len(dels) |-> dels[i].arg.Objects])

EmptyReturned == pc = "return" /\ input.fn = "empty_bucket"

\* C24: empty_bucket submits every listed version, delete marker and plain
\* object exactly once when no call fails (on a failure, what it submitted
\* is a part of the listing, nothing twice); every delete_objects call
\* carries between 1 and 1000 references; when a call fails with NoSuchBucket
\* the function issues no further call and returns without raising.
C24_EveryListedReferenceOnce ==
    EmptyReturned =>
        \E sub \in {Submitted(output.log)} :
        \E listed \in {ListedVersions(input.versions) \o ListedObjects(input.objects)} :
            /\ \A i \in 1..Len(output.log) :
                  IsDeleteCall(output.log[i]) =>
                      /\ Len(output.log[i].arg.Objects) >= 1
                      /\ Len(output.log[i].arg.Objects) <= 1000
                      /\ output.log[i].arg.Bucket = input.bucket
            /\ Len(sub) <= Len(listed)
            /\ sub = SubSeq(listed, 1, Len(sub))
            /\ Cardinality({sub[i] : i \in 1..Len(sub)}) = Len(sub)
            /\ (input.fail = NoFail /\ input.bucket # None) => sub = listed
            /\ input.bucket = None => output.log = <<>>
            /\ input.fail.code = "NoSuchBucket" =>
                  /\ output.exc = "none"
                  /\ output.printed = "ya no existe"
                  /\ Len(output.log) = input.fail.at

\* A page of 999 versions and 2 delete markers and a page of 1001 objects
\* were emptied: a full batch that mixes versions and a marker, and batches
\* of one reference.
C24_Witness ==
    /\ EmptyReturned /\ input.fail = NoFail
    /\ \E i, j, k \in 1..Len(output.log) :
          /\ i < j /\ j < k
          /\ IsDeleteCall(output.log[i]) /\ IsDeleteCall(output.log[j])
          /\ IsDeleteCall(output.log[k])
          /\ Len(output.log[i].arg.Objects) = 1000
          /\ output.log[i].arg.Objects[1].Key[1] = "v"
          /\ output.log[i].arg.Objects[1000].Key[1] = "m"
          /\ Len(output.log[j].arg.Objects) = 1
          /\ output.log[j].arg.Objects[1].Key[1] = "m"
          /\ Len(output.log[k].arg.Objects) = 1
          /\ DOMAIN output.log[k].arg.Objects[1] = {"Key"}

\* The count an image carries, read off the numerals of the stream records
\* (0 when the image or its count is missing).
CountOf(images, key) ==
    IF key \notin DOMAIN images THEN 0
    ELSE IF "count" \notin DOMAIN images[key] THEN 0
    ELSE CASE images[key].count.N = <<"4">> -> 4
           [] images[key].count.N = <<"5">> -> 5
           [] images[key].count.N = <<"1", "0">> -> 10
           [] images[key].count.N = <<"-", "1">> -> 0 - 1

\* The records the claim wants a message for.
LowStock(record) ==
    \/ record.eventName = "INSERT" /\ CountOf(record.dynamodb, "NewImage") < 5
    \/ /\ record.eventName = "MODIFY"
       /\ CountOf(record.dynamodb, "NewImage") < 5
       /\ CountOf(record.dynamodb, "OldImage") >= 5

NotifyReturned == pc = "return" /\ input.fn = "lambda_handler"

\* C25: the handler calls sns.publish once for each record that is an INSERT
\* with a new count below 5 or a MODIFY with a new count below 5 and an old
\* count of 5 or more, in the order of the records and with the record's new
\* count, and for no other record (REMOVE, new count of 5 or more, MODIFY
\* whose old count was below 5 already); a publish call that raises changes
\* nothing for the other records, and the handler returns normally.
C25_OneMessagePerLowStockRecord ==
    (NotifyReturned /\ input.TOPIC_ARN # None) =>
        \E rs \in {input.event.Records} :
        \E low \in {SelectSeq(rs, LowStock)} :
            /\ Len(output.log) = Len(low)
            /\ \A k \in 1..Len(low) :
                  /\ output.log[k].op = "publish"
                  /\ output.log[k].arg.TopicArn = input.TOPIC_ARN
                  /\ output.log[k].arg.Message.StockActual
                        = CountOf(low[k].dynamodb, "NewImage")
            /\ Len(output.printed) = Len(rs)
            /\ \A i \in 1..Len(rs) :
                  /\ output.printed[i] = "Correo enviado" <=> (LowStock(rs[i]) /\ i \notin input.fails)
                  /\ output.printed[i] = "Error procesando registro" <=> i \in input.fails
            /\ output.ret = <<"status", "ok">>
            /\ output.exc = "none"

\* The publish call of the first record (a MODIFY from 10 to 4) raised and
\* the second record (an INSERT with count -1) was notified all the same.
C25_Witness ==
    /\ NotifyReturned /\ input.TOPIC_ARN # None
    /\ Len(input.event.Records) = 2 /\ input.fails = {1}
    /\ input.event.Records[1].eventName = "MODIFY"
    /\ input.event.Records[2].eventName = "INSERT"
    /\ Len(output.log) = 2
    /\ output.log[1].arg.Message.StockActual = 4
    /\ output.log[2].arg.Message.StockActual = 0 - 1
    /\ output.printed = <<"Error procesando registro", "Correo enviado">>

====
